---- MODULE Spec2Model ----
(***************************************************************************)
(* Model of the schema-default engine of pkg/jsonschema (ApplyDefaults and *)
(* its helpers).  Go values of type interface{} are tagged records; maps   *)
(* and slices are reference types and live in an explicit heap, so that    *)
(* aliasing and in-place writes are observable.  Compiled schema nodes     *)
(* (pointers to jsonschema.Schema) are entries of a table addressed by name.*)
(***************************************************************************)
EXTENDS Integers, Sequences, FiniteSets, TLC

VARIABLES heap, pre, schema, input, order, out, out2, pc, decoded, converted,
          typed, mapped, swapped, swappedTyped

vars == <<heap, pre, schema, input, order, out, out2, pc, decoded, converted,
          typed, mapped, swapped, swappedTyped>>

----------------------------------------------------------------------------
(* Bounds of the model *)

\* longest input array
MaxLen == 3

\* deepest chain of nested ApplyDefaults calls that is followed before the
\* call is reported as not returning
MaxDepth == 6

----------------------------------------------------------------------------
(* Go values *)

Keys == {"a", "b", "c"}

\* interface{} holding nil (JSON null)
Nil == [t |-> "null", v |-> 0]
Num(n) == [t |-> "num", v |-> n]
Str(n) == [t |-> "str", v |-> n]
\* a map[string]interface{} or []interface{}: a reference to a heap cell
Ref(p) == [t |-> "ref", v |-> p]
\* lookup of a key a map does not hold (the `exists == false` of v, exists := m[k])
Absent == [t |-> "absent", v |-> 0]
\* the value of a call that never returns (recursion without end)
Diverged == [t |-> "diverged", v |-> 0]
\* the value of a call that is caught in the loop of resolveRef
Looping == [t |-> "looping", v |-> 0]

EmptyMap == [k \in Keys |-> Absent]
ObjCell(m) == [k |-> "obj", m |-> m, a |-> <<>>]
ArrCell(a) == [k |-> "arr", m |-> EmptyMap, a |-> a]
\* the backing array of a []*jsonschema.Schema: the nodes of the slice and,
\* past its length, the slots of its spare capacity
ListCell(a) == [k |-> "list", m |-> EmptyMap, a |-> a]

isMap(h, v) == v.t = "ref" /\ h[v.v].k = "obj"
isSlice(h, v) == v.t = "ref" /\ h[v.v].k = "arr"

\* result of an operation that may allocate: the heap after it and its value
R(h, v) == [h |-> h, v |-> v]

\* F applied to the value of x, x being evaluated once and before F
Then(x, F(_)) == CHOOSE y \in { F(v) : v \in {x} } : TRUE

\* the value a reference tree denotes (deep copy out of the heap)
RECURSIVE Deref(_, _)
Deref(h, v) ==
  IF v.t # "ref" THEN v
  ELSE IF h[v.v].k = "obj"
       THEN [t |-> "obj", m |-> [k \in Keys |-> Deref(h, h[v.v].m[k])]]
       ELSE [t |-> "arr", a |-> [i \in 1..Len(h[v.v].a) |-> Deref(h, h[v.v].a[i])]]

\* a tree written into fresh heap cells (what json.Unmarshal builds)
RECURSIVE Store(_, _), StoreKeys(_, _, _, _), StoreElems(_, _, _, _)
Store(h, tr) ==
  IF tr.t = "obj"
  THEN Then(Append(h, ObjCell(EmptyMap)),
            LAMBDA h1 : R(StoreKeys(h1, Len(h1), tr.m, Keys), Ref(Len(h1))))
  ELSE IF tr.t = "arr"
  THEN Then(Append(h, ArrCell([i \in 1..Len(tr.a) |-> Nil])),
            LAMBDA h1 : R(StoreElems(h1, Len(h1), tr.a, 1), Ref(Len(h1))))
  ELSE R(h, tr)
StoreKeys(h, p, f, ks) ==
  IF ks = {} THEN h
  ELSE LET k == CHOOSE x \in ks : TRUE
       IN Then(Store(h, f[k]),
               LAMBDA r : StoreKeys([r.h EXCEPT ![p].m[k] = r.v], p, f, ks \ {k}))
StoreElems(h, p, s, i) ==
  IF i > Len(s) THEN h
  ELSE Then(Store(h, s[i]),
            LAMBDA r : StoreElems([r.h EXCEPT ![p].a[i] = r.v], p, s, i + 1))

\* trees: a scalar is [t, v], an object [t, m], an array [t, a]
Obj(f) == [t |-> "obj", m |-> f]
Arr(s) == [t |-> "arr", a |-> s]

----------------------------------------------------------------------------
(* Compiled schema nodes *)

\* a nil schema pointer
NilSchema == "nil"
\* resolveRef on a $ref chain that loops: the for loop never ends
Hang == "hang"

\* a compiled node that declares no keyword.  AllOfAt is the address of the
\* backing array of the AllOf slice when that array is longer than the slice
\* (cap > len), and 0 when the slice fills its array
S0 == [Types |-> {}, HasProps |-> FALSE, Properties |-> <<>>, Required |-> {},
       ItemsKind |-> "none", Items |-> <<>>, Items2020 |-> NilSchema,
       Default |-> Nil, Ref |-> NilSchema,
       AllOf |-> <<>>, AnyOf |-> <<>>, OneOf |-> <<>>, AllOfAt |-> 0]

Props(s, f) == [s EXCEPT !.HasProps = TRUE, !.Properties = f]
Typed(s, ts) == [s EXCEPT !.Types = ts]
Dflt(s, v) == [s EXCEPT !.Default = v]
List(s, i) == [s EXCEPT !.ItemsKind = "single", !.Items = <<i>>]
Tuple(s, is) == [s EXCEPT !.ItemsKind = "tuple", !.Items = is]

\* memory owned by the compiled schema: the object and array literals of
\* `default` keywords
SchemaHeap ==
  << ObjCell([EmptyMap EXCEPT !["b"] = Num(9)]),   \* 1: {"b": 9}
     ArrCell(<<>>),                                \* 2: []
     ObjCell(EmptyMap),                            \* 3: {}
     ObjCell([EmptyMap EXCEPT !["a"] = Num(5)]),   \* 4: {"a": 5}
     ObjCell(EmptyMap),                            \* 5: {} (element of 6)
     ArrCell(<<Ref(5)>>),                          \* 6: [{}]
     ListCell(<<"AllA", "nil">>) >>                \* 7: AllOf of ComboSpare, cap 2

SchemaTable ==
  [ \* {"type":"integer","default":7}
    DefNum   |-> Dflt(Typed(S0, {"integer"}), Num(7)),
    \* {"type":"string","default":"d"}
    DefStr   |-> Dflt(Typed(S0, {"string"}), Str(8)),
    \* {"default":9}
    DefNum9  |-> Dflt(S0, Num(9)),
    \* {"type":"string"}
    PlainStr |-> Typed(S0, {"string"}),
    \* {"type":"integer"}
    PlainInt |-> Typed(S0, {"integer"}),
    \* {"type":"object","properties":{"a":DefNum}}
    ObjIn    |-> Props(Typed(S0, {"object"}), [a |-> "DefNum"]),
    \* {"type":"object","properties":{"b":DefStr}}
    ObjInB   |-> Props(Typed(S0, {"object"}), [b |-> "DefStr"]),
    \* {"type":"object","properties":{"a":PlainStr}}
    ObjNoDef |-> Props(Typed(S0, {"object"}), [a |-> "PlainStr"]),
    \* {"type":"object","properties":{"a":DefNum},"default":{"b":9}}
    ObjLit   |-> Dflt(Props(Typed(S0, {"object"}), [a |-> "DefNum"]), Ref(1)),
    \* {"type":"array","items":ObjIn,"default":[{}]}
    ArrLit   |-> Dflt(List(Typed(S0, {"array"}), "ObjIn"), Ref(6)),
    \* {"default":[]}
    LitEmptyArr |-> Dflt(S0, Ref(2)),
    \* {"default":{}}
    LitEmptyObj |-> Dflt(S0, Ref(3)),
    \* {"default":{"a":5}}
    LitObj   |-> Dflt(S0, Ref(4)),
    \* {"type":"array","items":ObjIn}
    ArrObj   |-> List(Typed(S0, {"array"}), "ObjIn"),
    \* {"type":"array","items":[ObjIn,ObjInB]}
    ArrTuple |-> Tuple(Typed(S0, {"array"}), <<"ObjIn", "ObjInB">>),
    \* {"type":"array","items":[]}
    ArrTuple0 |-> Tuple(Typed(S0, {"array"}), <<>>),
    \* {"type":"array"}
    ArrNoItems |-> Typed(S0, {"array"}),
    \* draft 2020-12: {"type":"array","items":ObjInB}
    Arr2020  |-> [Typed(S0, {"array"}) EXCEPT !.Items2020 = "ObjInB"],
    \* {"$ref": ObjIn} and {"$ref": RefObj}
    RefObj   |-> [S0 EXCEPT !.Ref = "ObjIn"],
    RefRef   |-> [S0 EXCEPT !.Ref = "RefObj"],
    \* allOf members
    AllA     |-> Props(S0, [a |-> "DefNum"]),
    AllB     |-> Props(S0, [a |-> "DefNum9", b |-> "DefStr"]),
    RefAllB  |-> [S0 EXCEPT !.Ref = "AllB"],
    \* {"default":[{}]}
    LitArr   |-> Dflt(S0, Ref(6)),
    \* {"properties":{"b":ArrObj}} and {"properties":{"b":LitArr}}
    ObjArr   |-> Props(S0, [b |-> "ArrObj"]),
    ObjLitArr |-> Props(S0, [b |-> "LitArr"]),
    AllC     |-> Props(S0, [c |-> "ObjArr"]),
    AllD     |-> Props(S0, [c |-> "ObjLitArr"]),
    \* oneOf members: {"properties":{"a":DefNum},"required":["b"]}, {"properties":{"b":DefStr}}
    OneA     |-> [Props(S0, [a |-> "DefNum"]) EXCEPT !.Required = {"b"}],
    OneB     |-> Props(S0, [b |-> "DefStr"]),
    \* anyOf members, told apart by the type of "a"
    AnyA     |-> Props(S0, [a |-> "PlainInt", b |-> "DefStr"]),
    AnyB     |-> Props(S0, [a |-> "PlainStr", c |-> "DefNum"]),
    \* roots
    RBasic   |-> [Props(Typed(S0, {"object"}),
                        [a |-> "DefNum", b |-> "DefStr", c |-> "ObjIn"])
                  EXCEPT !.Required = {"a"}],
    RLits    |-> Props(S0, [a |-> "ObjLit", b |-> "LitEmptyArr", c |-> "LitObj"]),
    RLits2   |-> Props(S0, [a |-> "ArrLit", b |-> "LitEmptyObj", c |-> "ObjNoDef"]),
    RArrs    |-> [Props(Typed(S0, {"object"}),
                        [a |-> "ArrObj", b |-> "ArrTuple", c |-> "RefRef"])
                  EXCEPT !.Required = {"c"}],
    RAllOf   |-> [Props(Typed(S0, {"object"}), [c |-> "DefNum9"])
                  EXCEPT !.AllOf = <<"AllA", "RefAllB">>, !.Required = {"a"}],
    RAllOfLit |-> [S0 EXCEPT !.AllOf = <<"AllC", "AllD">>],
    ROneOf   |-> [S0 EXCEPT !.OneOf = <<"OneA", "OneB">>],
    RAnyOf   |-> [Props(S0, [c |-> "DefNum9"])
                  EXCEPT !.AnyOf = <<"AnyA", "AnyB">>, !.Required = {"b"}],
    RRef     |-> [S0 EXCEPT !.Ref = "RBasic"],
    \* {"type":"object","properties":{"a":{"$ref":"#"},"b":DefStr}}
    RSelf    |-> Props(Typed(S0, {"object"}), [a |-> "RefSelf", b |-> "DefStr"]),
    RefSelf  |-> [S0 EXCEPT !.Ref = "RSelf"],
    \* {"allOf":[AllA],"anyOf":[OneB]}: the AllOf slice fills its array, or
    \* its array has room for one more node
    ComboExact |-> [S0 EXCEPT !.AllOf = <<"AllA">>, !.AnyOf = <<"OneB">>],
    ComboSpare |-> [S0 EXCEPT !.AllOf = <<"AllA">>, !.AnyOf = <<"OneB">>, !.AllOfAt = 7],
    RCombos  |-> Props(S0, [a |-> "ComboExact", b |-> "ComboSpare"]),
    \* {"allOf":[AllA],"oneOf":[OneB],"anyOf":[AnyB]}, {"oneOf":[OneA,OneB],"anyOf":[AnyB]}
    \* and {"allOf":[AllA]}
    ComboAll |-> [S0 EXCEPT !.AllOf = <<"AllA">>, !.OneOf = <<"OneB">>, !.AnyOf = <<"AnyB">>],
    ComboChoice |-> [S0 EXCEPT !.OneOf = <<"OneA", "OneB">>, !.AnyOf = <<"AnyB">>],
    OnlyAllA |-> [S0 EXCEPT !.AllOf = <<"AllA">>],
    \* properties whose schemas have a shape only through their branches:
    \* {"anyOf":[PlainStr,ArrObj],"oneOf":[ObjIn]}, {"anyOf":[PlainStr,PlainInt],"default":9},
    \* {"oneOf":[PlainStr],"default":[]}
    HintArrFirst |-> [S0 EXCEPT !.AnyOf = <<"PlainStr", "ArrObj">>, !.OneOf = <<"ObjIn">>],
    HintNone9 |-> [Dflt(S0, Num(9)) EXCEPT !.AnyOf = <<"PlainStr", "PlainInt">>],
    HintNoneEmpty |-> [Dflt(S0, Ref(2)) EXCEPT !.OneOf = <<"PlainStr">>],
    RHints   |-> Props(S0, [a |-> "HintArrFirst", b |-> "HintNone9", c |-> "HintNoneEmpty"]),
    \* {"anyOf":[OneB,OneA]}: OneA is valid once OneB has added "b"
    RAnyOrder |-> [S0 EXCEPT !.AnyOf = <<"OneB", "OneA">>],
    \* two nodes that refer to each other
    CycA     |-> [S0 EXCEPT !.Ref = "CycB"],
    CycB     |-> [S0 EXCEPT !.Ref = "CycA"],
    \* {"properties":{"a":CycA,"b":DefStr}}
    RCyc     |-> Props(S0, [a |-> "CycA", b |-> "DefStr"]),
    \* {"type":"object","properties":{"a":ArrObj,"b":ObjLit,"c":ObjIn}}
    RTyped   |-> Props(Typed(S0, {"object"}), [a |-> "ArrObj", b |-> "ObjLit", c |-> "ObjIn"]),
    \* {"type":"object","properties":{"a":ArrObj,"b":DefStr,"c":{"type":"object","properties":{"b":ArrObj}}}}
    ObjArrT  |-> Props(Typed(S0, {"object"}), [b |-> "ArrObj"]),
    RHollow  |-> Props(Typed(S0, {"object"}), [a |-> "ArrObj", b |-> "DefStr", c |-> "ObjArrT"]),
    \* {"type":["array","object"],"properties":{"a":DefNum,"c":RefRef},"items":ObjIn}
    RMixed   |-> Props(List(Typed(S0, {"array", "object"}), "ObjIn"),
                       [a |-> "DefNum", c |-> "RefRef"]) ]

SchemaNames == DOMAIN SchemaTable

Sch(s) == SchemaTable[s]

----------------------------------------------------------------------------
(* The library's validity predicate s.Validate(v) == nil, for the keywords   *)
(* the table uses: $ref, type, required, properties, items, allOf, anyOf,    *)
(* oneOf (draft-07 rules; a number of the model is integral).                *)

jsonType(h, v) ==
  IF v.t = "null" THEN {"null"}
  ELSE IF v.t = "num" THEN {"integer", "number"}
  ELSE IF v.t = "str" THEN {"string"}
  ELSE IF isMap(h, v) THEN {"object"}
  ELSE IF isSlice(h, v) THEN {"array"}
  ELSE {}

RECURSIVE Validate(_, _, _)
Validate(h, s, v) ==
  IF s = NilSchema THEN TRUE
  ELSE IF Sch(s).Ref # NilSchema THEN Validate(h, Sch(s).Ref, v)
  ELSE
    LET n == Sch(s)
        nValid(ss) == Cardinality({i \in 1..Len(ss) : Validate(h, ss[i], v)})
    IN /\ (n.Types = {} \/ jsonType(h, v) \cap n.Types # {})
       /\ isMap(h, v) =>
            /\ \A k \in n.Required : h[v.v].m[k] # Absent
            /\ \A k \in DOMAIN n.Properties :
                 h[v.v].m[k] # Absent => Validate(h, n.Properties[k], h[v.v].m[k])
       /\ isSlice(h, v) =>
            \A i \in 1..Len(h[v.v].a) :
               IF n.Items2020 # NilSchema THEN Validate(h, n.Items2020, h[v.v].a[i])
               ELSE IF n.ItemsKind = "single" THEN Validate(h, n.Items[1], h[v.v].a[i])
               ELSE IF n.ItemsKind = "tuple" /\ i <= Len(n.Items)
                    THEN Validate(h, n.Items[i], h[v.v].a[i])
               ELSE TRUE
       /\ \A i \in 1..Len(n.AllOf) : Validate(h, n.AllOf[i], v)
       /\ (n.AnyOf # <<>> => nValid(n.AnyOf) > 0)
       /\ (n.OneOf # <<>> => nValid(n.OneOf) = 1)

----------------------------------------------------------------------------
(* ApplyDefaults and its helpers *)

hasType(s, typ) ==
  IF s = NilSchema THEN FALSE ELSE typ \in Sch(s).Types

\* a required list that is never consulted
isRequiredNever(propName, required) == FALSE

isRequired(propName, required) ==
  IF required = {} THEN FALSE ELSE propName \in required

\* the loop leaves the chain after one step
followRefOnce(s, n) ==
  IF Sch(s).Ref = NilSchema THEN s ELSE Sch(s).Ref

\* for schema.Ref != nil { schema = schema.Ref }; n bounds the steps: a chain
\* longer than the number of nodes has come back to a node it left
RECURSIVE followRef(_, _)
followRef(s, n) ==
  IF Sch(s).Ref = NilSchema THEN s
  ELSE IF n = 0 THEN Hang
  ELSE followRef(Sch(s).Ref, n - 1)

resolveRef(s) ==
  IF s = NilSchema THEN NilSchema ELSE followRef(s, Cardinality(SchemaNames))

\* only nil is refused: empty objects and arrays are added
shouldAddValueNonNil(h, value) == value # Nil

shouldAddValue(h, value) ==
  IF value = Nil THEN FALSE
  ELSE IF isMap(h, value) THEN \E k \in Keys : h[value.v].m[k] # Absent
  ELSE IF isSlice(h, value) THEN Len(h[value.v].a) > 0
  ELSE TRUE

\* tuple validation that hands every position the first schema
getItemsSchemaFirst(s, index) ==
  IF s = NilSchema THEN NilSchema
  ELSE IF Sch(s).Items2020 # NilSchema THEN Sch(s).Items2020
  ELSE IF Sch(s).ItemsKind = "none" THEN NilSchema
  ELSE IF Len(Sch(s).Items) = 0 THEN NilSchema
  ELSE Sch(s).Items[1]

\* index counts from 0, as in the source
getItemsSchemaForIndex(s, index) ==
  IF s = NilSchema THEN NilSchema
  ELSE IF Sch(s).Items2020 # NilSchema THEN Sch(s).Items2020
  ELSE IF Sch(s).ItemsKind = "none" THEN NilSchema
  ELSE IF Sch(s).ItemsKind = "single" THEN Sch(s).Items[1]
  ELSE LET items == Sch(s).Items
       IN IF Len(items) = 0 THEN NilSchema
          ELSE IF index < Len(items) THEN items[index + 1]
          ELSE items[Len(items)]

\* result := dataMap: the result is the caller's own map
copyMapAliased(h, dataMap) == R(h, dataMap)

\* result := make(map[string]interface{}) without the copy loop
copyMapEmpty(h, dataMap) ==
  Then(Append(h, ObjCell(EmptyMap)), LAMBDA h1 : R(h1, Ref(Len(h1))))

\* result := make(map[string]interface{}); for k, v := range dataMap { result[k] = v }
copyMap(h, dataMap) ==
  Then(Append(h, ObjCell(h[dataMap.v].m)), LAMBDA h1 : R(h1, Ref(Len(h1))))

\* result := make([]interface{}, len(arr))
makeSlice(h, arr) ==
  Then(Append(h, ArrCell([i \in 1..Len(h[arr.v].a) |-> Nil])),
       LAMBDA h1 : R(h1, Ref(Len(h1))))

\* map[string]interface{}{} and []interface{}{}
emptyMap(h) == Then(Append(h, ObjCell(EmptyMap)), LAMBDA h1 : R(h1, Ref(Len(h1))))
emptySlice(h) == Then(Append(h, ArrCell(<<>>)), LAMBDA h1 : R(h1, Ref(Len(h1))))

\* the order in which `range schema.Properties` visits the declared names
propertyOrder(s) == SelectSeq(order, LAMBDA k : k \in DOMAIN Sch(s).Properties)

\* the children in the opposite order: oneOf, anyOf, allOf
combinationChildrenOneOfFirst(rs) == Sch(rs).OneOf \o Sch(rs).AnyOf \o Sch(rs).AllOf

\* append(append(AllOf, AnyOf...), OneOf...)
combinationChildren(rs) == Sch(rs).AllOf \o Sch(rs).AnyOf \o Sch(rs).OneOf

\* what the two appends of that statement write: append(s, more...) stores
\* `more` behind the elements of s in the array of s when the array has room
\* for them, and in a new array otherwise
appendInPlace(a, len, more) ==
  IF len + Len(more) <= Len(a)
  THEN [i \in 1..Len(a) |-> IF i > len /\ i <= len + Len(more) THEN more[i - len] ELSE a[i]]
  ELSE a

\* the second append finds room only where the first did, so it writes to the
\* schema's array only if the first did not move to a new one
appendChildren(h, rs) ==
  IF Sch(rs).AllOfAt = 0 THEN h
  ELSE [h EXCEPT ![Sch(rs).AllOfAt].a =
          appendInPlace(appendInPlace(@, Len(Sch(rs).AllOf), Sch(rs).AnyOf),
                        Len(Sch(rs).AllOf) + Len(Sch(rs).AnyOf), Sch(rs).OneOf)]

\* the append statement is reached: the schema itself hints at no shape
reachesChildren(rs) ==
  ~(Sch(rs).HasProps \/ hasType(rs, "object")) /\ ~hasType(rs, "array")

\* the loop over the children: the first that hints at an object or an array
RECURSIVE inferFromChildren(_)
inferFromChildren(children) ==
  IF children = <<>> THEN "none"
  ELSE LET child == resolveRef(Head(children))
       IN IF child = Hang THEN "hang"
          ELSE IF child = NilSchema THEN inferFromChildren(Tail(children))
          ELSE IF Sch(child).HasProps \/ hasType(child, "object") THEN "object"
          ELSE IF hasType(child, "array") THEN "array"
          ELSE inferFromChildren(Tail(children))

\* a literal default is looked at before the shape of the schema
structureHintLiteralFirst(rs) ==
  IF Sch(rs).Default # Nil THEN "none"
  ELSE IF Sch(rs).HasProps \/ hasType(rs, "object") THEN "object"
  ELSE IF hasType(rs, "array") THEN "array"
  ELSE inferFromChildren(combinationChildren(rs))

\* which empty structure a missing property starts from
structureHint(rs) ==
  IF Sch(rs).HasProps \/ hasType(rs, "object") THEN "object"
  ELSE IF hasType(rs, "array") THEN "array"
  ELSE inferFromChildren(combinationChildren(rs))

\* oneOf that applies every subschema, whatever validates
schemasToApplyOneOfAll(h, data, subschemas, mode) ==
  LET matching == SelectSeq(subschemas, LAMBDA s : Validate(h, s, data))
  IN IF mode = "allOf" THEN subschemas
     ELSE IF mode = "oneOf" THEN subschemas
     ELSE IF mode = "anyOf"
          THEN (IF Len(matching) > 0 THEN matching ELSE subschemas)
     ELSE <<>>

\* oneOf without the fallback: nothing is applied unless exactly one validates
schemasToApplyOneOfStrict(h, data, subschemas, mode) ==
  LET matching == SelectSeq(subschemas, LAMBDA s : Validate(h, s, data))
  IN IF mode = "allOf" THEN subschemas
     ELSE IF mode = "oneOf"
          THEN (IF Len(matching) = 1 THEN matching ELSE <<>>)
     ELSE IF mode = "anyOf"
          THEN (IF Len(matching) > 0 THEN matching ELSE subschemas)
     ELSE <<>>

\* anyOf that applies every subschema, whatever validates
schemasToApplyAnyOfAll(h, data, subschemas, mode) ==
  LET matching == SelectSeq(subschemas, LAMBDA s : Validate(h, s, data))
  IN IF mode = "allOf" THEN subschemas
     ELSE IF mode = "oneOf"
          THEN (IF Len(matching) = 1 THEN matching ELSE subschemas)
     ELSE IF mode = "anyOf" THEN subschemas
     ELSE <<>>

\* the subschemas whose defaults a combination applies
schemasToApply(h, data, subschemas, mode) ==
  LET matching == SelectSeq(subschemas, LAMBDA s : Validate(h, s, data))
  IN IF mode = "allOf" THEN subschemas
     ELSE IF mode = "oneOf"
          THEN (IF Len(matching) = 1 THEN matching ELSE subschemas)
     ELSE IF mode = "anyOf"
          THEN (IF Len(matching) > 0 THEN matching ELSE subschemas)
     ELSE <<>>

RECURSIVE ApplyDefaults(_, _, _, _)
RECURSIVE applyDefaultsToObject(_, _, _, _)
RECURSIVE propertyLoop(_, _, _, _, _)
RECURSIVE applyDefaultsForProperty(_, _, _, _)
RECURSIVE applyDefaultsToArray(_, _, _, _)
RECURSIVE itemLoop(_, _, _, _, _, _)
RECURSIVE applyDefaultsWithCombination(_, _, _, _, _, _)
RECURSIVE applySequentially(_, _, _, _)
RECURSIVE applyDefaultsToBaseSchema(_, _, _, _)

\* the dispatch in the opposite order: anyOf, then oneOf, then allOf
combinationModeAnyFirst(s) ==
  IF Len(Sch(s).AnyOf) > 0 THEN "anyOf"
  ELSE IF Len(Sch(s).OneOf) > 0 THEN "oneOf"
  ELSE IF Len(Sch(s).AllOf) > 0 THEN "allOf"
  ELSE "none"

\* the dispatch on the combination keywords: allOf, then oneOf, then anyOf
combinationMode(s) ==
  IF Len(Sch(s).AllOf) > 0 THEN "allOf"
  ELSE IF Len(Sch(s).OneOf) > 0 THEN "oneOf"
  ELSE IF Len(Sch(s).AnyOf) > 0 THEN "anyOf"
  ELSE "none"

combinationSubschemas(s, mode) ==
  IF mode = "allOf" THEN Sch(s).AllOf
  ELSE IF mode = "oneOf" THEN Sch(s).OneOf
  ELSE Sch(s).AnyOf

\* d: how many nested ApplyDefaults calls may still be entered.  The last
\* branch stands for the statements after the combination dispatch, which are
\* the statements of applyDefaultsToBaseSchema.
ApplyDefaults(h, data, s0, d) ==
  IF s0 = NilSchema THEN R(h, data)
  ELSE IF data = Nil THEN R(h, Nil)
  ELSE IF d = 0 THEN R(h, Diverged)
  ELSE
    LET s == resolveRef(s0)
    IN IF s = Hang THEN R(h, Looping)
       ELSE IF combinationMode(s) # "none"
         THEN applyDefaultsWithCombination(
                h, data, combinationSubschemas(s, combinationMode(s)), s,
                combinationMode(s), d - 1)
       ELSE applyDefaultsToBaseSchema(h, data, s, d - 1)

\* the loop body without its test for an explicit null: null counts as missing
propertyStepNullAsMissing(h, p, s, propName, d) ==
  LET propSchema == Sch(s).Properties[propName]
      existingValue == h[p].m[propName]
      exists == existingValue # Absent /\ existingValue # Nil
  IN IF propSchema = NilSchema \/ isRequired(propName, Sch(s).Required) THEN h
     ELSE Then(applyDefaultsForProperty(
                 h, IF exists THEN existingValue ELSE Nil, propSchema, d),
               LAMBDA r : IF ~exists /\ ~shouldAddValue(r.h, r.v)
                          THEN r.h
                          ELSE [r.h EXCEPT ![p].m[propName] = r.v])

\* the loop body that leaves every present value as it is
propertyStepNoRecurse(h, p, s, propName, d) ==
  LET propSchema == Sch(s).Properties[propName]
      existingValue == h[p].m[propName]
      exists == existingValue # Absent
  IN IF propSchema = NilSchema \/ isRequired(propName, Sch(s).Required) THEN h
     ELSE IF exists THEN h
     ELSE Then(applyDefaultsForProperty(h, Nil, propSchema, d),
               LAMBDA r : IF ~shouldAddValue(r.h, r.v)
                          THEN r.h
                          ELSE [r.h EXCEPT ![p].m[propName] = r.v])

\* the loop body that skips a required property only when it is missing
propertyStepRequiredIfMissing(h, p, s, propName, d) ==
  LET propSchema == Sch(s).Properties[propName]
      existingValue == h[p].m[propName]
      exists == existingValue # Absent
  IN IF propSchema = NilSchema THEN h
     ELSE IF isRequired(propName, Sch(s).Required) /\ ~exists THEN h
     ELSE IF exists /\ existingValue = Nil THEN h
     ELSE Then(applyDefaultsForProperty(
                 h, IF exists THEN existingValue ELSE Nil, propSchema, d),
               LAMBDA r : IF ~exists /\ ~shouldAddValue(r.h, r.v)
                          THEN r.h
                          ELSE [r.h EXCEPT ![p].m[propName] = r.v])

\* the loop body for which a key that holds a scalar counts as missing
propertyStepOverScalars(h, p, s, propName, d) ==
  LET propSchema == Sch(s).Properties[propName]
      existingValue == h[p].m[propName]
      exists == existingValue.t \in {"ref", "null"}
  IN IF propSchema = NilSchema \/ isRequired(propName, Sch(s).Required) THEN h
     ELSE IF exists /\ existingValue = Nil THEN h
     ELSE Then(applyDefaultsForProperty(
                 h, IF exists THEN existingValue ELSE Nil, propSchema, d),
               LAMBDA r : IF ~exists /\ ~shouldAddValue(r.h, r.v)
                          THEN r.h
                          ELSE [r.h EXCEPT ![p].m[propName] = r.v])

\* one pass of the loop over schema.Properties, on the result map at address p
propertyStep(h, p, s, propName, d) ==
  LET propSchema == Sch(s).Properties[propName]
      existingValue == h[p].m[propName]
      exists == existingValue # Absent
  IN IF propSchema = NilSchema \/ isRequired(propName, Sch(s).Required) THEN h
     ELSE IF exists /\ existingValue = Nil THEN h
     ELSE Then(applyDefaultsForProperty(
                 h, IF exists THEN existingValue ELSE Nil, propSchema, d),
               LAMBDA r : IF ~exists /\ ~shouldAddValue(r.h, r.v)
                          THEN r.h
                          ELSE [r.h EXCEPT ![p].m[propName] = r.v])

\* a loop that leaves after the first name it visits
propertyLoopFirstOnly(h, p, s, names, d) ==
  IF names = <<>> THEN h ELSE propertyStep(h, p, s, Head(names), d)

propertyLoop(h, p, s, names, d) ==
  IF names = <<>> THEN h
  ELSE Then(propertyStep(h, p, s, Head(names), d),
            LAMBDA h1 : propertyLoop(h1, p, s, Tail(names), d))

applyDefaultsToObject(h, data, s, d) ==
  IF ~isMap(h, data) \/ ~Sch(s).HasProps THEN R(h, data)
  ELSE Then(copyMap(h, data),
            LAMBDA result :
              R(propertyLoop(result.h, result.v.v, s, propertyOrder(s), d), result.v))

\* the literal default is looked at before the shape of the schema
applyDefaultsForPropertyDefaultFirst(h, value, propSchema, d) ==
  IF propSchema = NilSchema THEN R(h, value)
  ELSE
    LET resolvedSchema == resolveRef(propSchema)
        hint == IF value # Nil THEN "given"
                ELSE IF resolvedSchema = Hang THEN "hang"
                ELSE IF Sch(resolvedSchema).Default # Nil THEN "none"
                ELSE structureHint(resolvedSchema)
        hw == IF value = Nil /\ resolvedSchema # Hang /\ reachesChildren(resolvedSchema)
              THEN appendChildren(h, resolvedSchema)
              ELSE h
    IN IF hint = "hang" THEN R(h, Looping)
       ELSE IF hint = "none" THEN R(hw, Sch(resolvedSchema).Default)
       ELSE Then(IF hint = "given" THEN R(h, value)
                 ELSE IF hint = "object" THEN emptyMap(hw)
                 ELSE emptySlice(hw),
                 LAMBDA e : ApplyDefaults(e.h, e.v, propSchema, d))

\* the literal default of a schema without shape is forgotten
applyDefaultsForPropertyNoDefault(h, value, propSchema, d) ==
  IF propSchema = NilSchema THEN R(h, value)
  ELSE
    LET resolvedSchema == resolveRef(propSchema)
        hint == IF value # Nil THEN "given"
                ELSE IF resolvedSchema = Hang THEN "hang"
                ELSE structureHint(resolvedSchema)
        hw == IF value = Nil /\ resolvedSchema # Hang /\ reachesChildren(resolvedSchema)
              THEN appendChildren(h, resolvedSchema)
              ELSE h
    IN IF hint = "hang" THEN R(h, Looping)
       ELSE IF hint = "none" THEN R(hw, Nil)
       ELSE Then(IF hint = "given" THEN R(h, value)
                 ELSE IF hint = "object" THEN emptyMap(hw)
                 ELSE emptySlice(hw),
                 LAMBDA e : ApplyDefaults(e.h, e.v, propSchema, d))

applyDefaultsForProperty(h, value, propSchema, d) ==
  IF propSchema = NilSchema THEN R(h, value)
  ELSE
    LET resolvedSchema == resolveRef(propSchema)
        hint == IF value # Nil THEN "given"
                ELSE IF resolvedSchema = Hang THEN "hang"
                ELSE structureHint(resolvedSchema)
        hw == IF value = Nil /\ resolvedSchema # Hang /\ reachesChildren(resolvedSchema)
              THEN appendChildren(h, resolvedSchema)
              ELSE h
    IN IF hint = "hang" THEN R(h, Looping)
       ELSE IF hint = "none" THEN R(hw, Sch(resolvedSchema).Default)
       ELSE Then(IF hint = "given" THEN R(h, value)
                 ELSE IF hint = "object" THEN emptyMap(hw)
                 ELSE emptySlice(hw),
                 LAMBDA e : ApplyDefaults(e.h, e.v, propSchema, d))

\* a processed element that is empty or nil is not written to the result
itemStepDropEmpty(h, p, s, item, i, d) ==
  LET itemsSchema == getItemsSchemaForIndex(s, i - 1)
  IN Then(ApplyDefaults(h, item, itemsSchema, d),
          LAMBDA r : IF shouldAddValue(r.h, r.v)
                     THEN [r.h EXCEPT ![p].a[i] = r.v]
                     ELSE r.h)

\* one pass of the loop over arr; i counts from 1, the source's index is i - 1
itemStep(h, p, s, item, i, d) ==
  LET itemsSchema == getItemsSchemaForIndex(s, i - 1)
  IN IF itemsSchema # NilSchema
     THEN Then(ApplyDefaults(h, item, itemsSchema, d),
               LAMBDA r : [r.h EXCEPT ![p].a[i] = r.v])
     ELSE [h EXCEPT ![p].a[i] = item]

itemLoop(h, p, s, arr, i, d) ==
  IF i > Len(h[arr.v].a) THEN h
  ELSE Then(itemStep(h, p, s, h[arr.v].a[i], i, d),
            LAMBDA h1 : itemLoop(h1, p, s, arr, i + 1, d))

applyDefaultsToArray(h, data, s, d) ==
  IF ~isSlice(h, data) THEN R(h, data)
  ELSE Then(makeSlice(h, data),
            LAMBDA result :
              R(itemLoop(result.h, result.v.v, s, data, 1, d), result.v))

\* the fold that starts from the last subschema
applySequentiallyReversed(h, result, schemas, d) ==
  IF schemas = <<>> THEN R(h, result)
  ELSE Then(ApplyDefaults(h, result, schemas[Len(schemas)], d),
            LAMBDA r : applySequentially(r.h, r.v, SubSeq(schemas, 1, Len(schemas) - 1), d))

applySequentially(h, result, schemas, d) ==
  IF schemas = <<>> THEN R(h, result)
  ELSE Then(ApplyDefaults(h, result, Head(schemas), d),
            LAMBDA r : applySequentially(r.h, r.v, Tail(schemas), d))

\* a fold that validates each subschema against the running result, just
\* before it applies it
RECURSIVE applyWhileValid(_, _, _, _)
applyWhileValid(h, result, schemas, d) ==
  IF schemas = <<>> THEN R(h, result)
  ELSE IF Validate(h, Head(schemas), result)
  THEN Then(ApplyDefaults(h, result, Head(schemas), d),
            LAMBDA r : applyWhileValid(r.h, r.v, Tail(schemas), d))
  ELSE applyWhileValid(h, result, Tail(schemas), d)

\* oneOf and anyOf with the validation inside the fold
applyDefaultsWithCombinationInterleaved(h, data, subschemas, baseSchema, mode, d) ==
  Then(IF mode = "allOf" THEN applySequentially(h, data, subschemas, d)
       ELSE applyWhileValid(h, data, subschemas, d),
       LAMBDA r : applyDefaultsToBaseSchema(r.h, r.v, baseSchema, d))

\* the fold over the subschemas without the pass over the node itself
applyDefaultsWithCombinationNoBase(h, data, subschemas, baseSchema, mode, d) ==
  applySequentially(h, data, schemasToApply(h, data, subschemas, mode), d)

applyDefaultsWithCombination(h, data, subschemas, baseSchema, mode, d) ==
  Then(applySequentially(h, data, schemasToApply(h, data, subschemas, mode), d),
       LAMBDA r : applyDefaultsToBaseSchema(r.h, r.v, baseSchema, d))

applyDefaultsToBaseSchema(h, data, s, d) ==
  IF Sch(s).HasProps
  THEN (IF isMap(h, data) THEN applyDefaultsToObject(h, data, s, d) ELSE R(h, data))
  ELSE IF hasType(s, "array") THEN applyDefaultsToArray(h, data, s, d)
  ELSE R(h, data)

----------------------------------------------------------------------------
(* Inputs *)

Set(k, x) == [EmptyMap EXCEPT ![k] = x]

\* values of the properties of an input object
InnerVals ==
  { Absent, Nil, Num(1), Str(1),
    Obj(EmptyMap), Obj(Set("a", Nil)),
    Arr(<<>>), Arr([i \in 1..MaxLen |-> IF i = 2 THEN Nil ELSE Obj(EmptyMap)]) }

\* elements of an input array
ElemVals == { Nil, Num(1), Obj(EmptyMap), Obj(Set("b", Str(1))) }

Docs ==
  {Nil, Num(1), Str(1)}
  \cup { Obj(f) : f \in [Keys -> InnerVals] }
  \cup { Arr(q) : q \in UNION { [1..n -> ElemVals] : n \in 0..MaxLen } }

Roots ==
  { NilSchema, "RBasic", "RLits", "RLits2", "RArrs", "RAllOf", "RAllOfLit", "ROneOf",
    "RAnyOf", "RRef", "RMixed", "ObjIn", "ArrObj", "ArrTuple", "ArrTuple0",
    "ArrNoItems", "Arr2020", "PlainStr", "RSelf", "CycA", "RCombos", "RCyc" }

\* the orders in which a range over a map of property names can visit them
Orders ==
  { q \in [1..Cardinality(Keys) -> Keys] : \A k \in Keys : \E i \in DOMAIN q : q[i] = k }

\* no call has returned a value yet
NoValue == [t |-> "none", v |-> 0]

----------------------------------------------------------------------------
(* The caller: parse a document, apply the defaults, apply them again *)

\* the heaps json.Unmarshal can leave behind, next to the schema's own memory
Parsed == { Store(SchemaHeap, doc) : doc \in Docs }

Init ==
  /\ schema \in Roots
  /\ order \in Orders
  /\ out = NoValue
  /\ out2 = NoValue
  /\ pc = "parsed"
  /\ \E st \in Parsed : heap = st.h /\ pre = st.h /\ input = st.v
  /\ decoded = NoValue
  /\ converted = NoValue
  /\ typed = NoValue
  /\ mapped = NoValue
  /\ swapped = NoValue
  /\ swappedTyped = NoValue

\* a call whose value or whose writes hold the mark did not come to its end
Holds(r, mark) ==
  \/ r.v = mark
  \/ \E p \in DOMAIN r.h :
        /\ r.h[p].k # "list"
        /\ \/ \E k \in Keys : r.h[p].m[k] = mark
           \/ \E i \in DOMAIN r.h[p].a : r.h[p].a[i] = mark

\* how a call ends: it returns, it is caught in the loop of resolveRef, or
\* its recursion exhausts the stack and the runtime aborts the program
Outcome(r) ==
  IF Holds(r, Looping) THEN "hung"
  ELSE IF Holds(r, Diverged) THEN "overflow"
  ELSE "returned"

\* result := ApplyDefaults(data, schema)
Apply ==
  /\ pc = "parsed"
  /\ \E r \in {ApplyDefaults(heap, input, schema, MaxDepth)} :
        IF Outcome(r) = "returned"
        THEN heap' = r.h /\ out' = r.v /\ pc' = "applied"
        ELSE heap' = heap /\ out' = out /\ pc' = Outcome(r)
  /\ pre' = heap
  /\ UNCHANGED <<schema, input, order, out2, decoded, converted, typed, mapped,
               swapped, swappedTyped>>

\* again := ApplyDefaults(result, schema)
Reapply ==
  /\ pc = "applied"
  /\ \E r \in {ApplyDefaults(heap, out, schema, MaxDepth)} :
        IF Outcome(r) = "returned"
        THEN heap' = r.h /\ out2' = r.v /\ pc' = "reapplied"
        ELSE heap' = heap /\ out2' = out2 /\ pc' = Outcome(r)
  /\ UNCHANGED <<pre, schema, input, order, out, decoded, converted, typed, mapped,
               swapped, swappedTyped>>

Next == Apply \/ Reapply

Spec == Init /\ [][Next]_vars

----------------------------------------------------------------------------
(* jsonutil: decoding with int64 for the integers that fit *)

\* a JSON number literal as json.Number holds it, as text: sign, digits of
\* the integer part (no leading zero but for "0"), the fraction behind a '.',
\* the exponent behind an 'e' or 'E'
Lit(neg, int, dot, frac, e, exp) ==
  [neg |-> neg, int |-> int, dot |-> dot, frac |-> frac, e |-> e, exp |-> exp]
Whole(neg, int) == Lit(neg, int, FALSE, <<>>, "", 0)

\* strings.ContainsAny(s, ".eE")
ContainsAny(l) == l.dot \/ l.e # ""

\* the digits of 2^63 - 1 and of 2^63
MaxInt64 == <<9, 2, 2, 3, 3, 7, 2, 0, 3, 6, 8, 5, 4, 7, 7, 5, 8, 0, 7>>
MinInt64 == <<9, 2, 2, 3, 3, 7, 2, 0, 3, 6, 8, 5, 4, 7, 7, 5, 8, 0, 8>>

\* a <= b for numbers written without leading zeros
RECURSIVE LexLeq(_, _)
LexLeq(a, b) ==
  IF a = <<>> THEN TRUE
  ELSE IF Head(a) # Head(b) THEN Head(a) < Head(b)
  ELSE LexLeq(Tail(a), Tail(b))
DigitsLeq(a, b) == Len(a) < Len(b) \/ (Len(a) = Len(b) /\ LexLeq(a, b))

\* n.Int64() returns no error: strconv.ParseInt(s, 10, 64) on digits only
Int64Ok(l) ==
  /\ ~ContainsAny(l)
  /\ DigitsLeq(l.int, IF l.neg THEN MinInt64 ELSE MaxInt64)

\* the largest decimal exponent of a finite float64 (1.797...e308)
MaxFloatExp == 308

\* the power of ten of the first digit of the literal's value; the literals of
\* the model with a zero integer part have a zero exponent
Order(l) == Len(l.int) - 1 + l.exp

\* n.Float64() returns no error: strconv.ParseFloat(s, 64) reports a range
\* error when the value rounds to infinity, and none when it rounds to zero.
\* The literals of the model are not of order 308, where the digits decide.
Float64Ok(l) == l.int = <<0>> \/ Order(l) < MaxFloatExp

\* values after the conversion: the Go type and the literal the value is of
Number(l) == [t |-> "number", lit |-> l]
Int64(l) == [t |-> "int64", lit |-> l]
Float64(l) == [t |-> "float64", lit |-> l]
RawString(l) == [t |-> "string", lit |-> l]

convertNumber(n) ==
  IF ContainsAny(n.lit)
  THEN (IF Float64Ok(n.lit) THEN Float64(n.lit) ELSE RawString(n.lit))
  ELSE IF Int64Ok(n.lit) THEN Int64(n.lit)
  ELSE IF Float64Ok(n.lit) THEN Float64(n.lit)
  ELSE RawString(n.lit)

RECURSIVE convertNumbers(_)
convertNumbers(v) ==
  IF v.t = "obj"
  THEN Obj([k \in Keys |-> IF v.m[k] = Absent THEN Absent ELSE convertNumbers(v.m[k])])
  ELSE IF v.t = "arr"
  THEN Arr([i \in 1..Len(v.a) |-> convertNumbers(v.a[i])])
  ELSE IF v.t = "number" THEN convertNumber(v)
  ELSE v

\* digits of the model's literals
Nines(n) == [i \in 1..n |-> 9]

Lits ==
  { Whole(FALSE, <<0>>), Whole(FALSE, <<4, 2>>), Whole(TRUE, <<7>>),
    Whole(FALSE, MaxInt64), Whole(FALSE, MinInt64),
    Whole(TRUE, MinInt64),
    Whole(TRUE, <<9, 2, 2, 3, 3, 7, 2, 0, 3, 6, 8, 5, 4, 7, 7, 5, 8, 0, 9>>),
    Whole(FALSE, <<1>> \o [i \in 1..19 |-> 0]),
    Whole(FALSE, Nines(MaxFloatExp + 2)),
    Lit(FALSE, <<3>>, TRUE, <<1, 4>>, "", 0),
    Lit(FALSE, <<1>>, FALSE, <<>>, "e", 3),
    Lit(FALSE, <<1>>, FALSE, <<>>, "E", 3),
    Lit(TRUE, <<2>>, TRUE, <<5>>, "e", 0 - 3),
    Lit(FALSE, <<1>>, FALSE, <<>>, "e", 0 - 999),
    Lit(FALSE, <<1>>, FALSE, <<>>, "e", 999),
    Lit(TRUE, <<1>>, TRUE, <<0>>, "E", 400) }

\* documents with numbers at depth 0, 1 and 2
NumDocs ==
  { Number(l) : l \in Lits }
  \cup { Obj(Set("a", Number(l))) : l \in Lits }
  \cup { Arr(<<Str(1), Number(l)>>) : l \in Lits }
  \cup { Obj(Set("b", Arr(<<Obj(Set("c", Number(l))), Number(k)>>))) : l, k \in Lits }

\* dec.UseNumber(); dec.Decode(&v): numbers arrive as json.Number
InitNum ==
  /\ heap = SchemaHeap /\ pre = SchemaHeap
  /\ schema = NilSchema /\ input = Nil
  /\ order = <<"a", "b", "c">>
  /\ out = NoValue /\ out2 = NoValue
  /\ pc = "decoded"
  /\ decoded \in NumDocs
  /\ converted = NoValue
  /\ typed = NoValue
  /\ mapped = NoValue
  /\ swapped = NoValue
  /\ swappedTyped = NoValue

\* return convertNumbers(v), nil
Convert ==
  /\ pc = "decoded"
  /\ converted' = convertNumbers(decoded)
  /\ pc' = "converted"
  /\ UNCHANGED <<heap, pre, schema, input, order, out, out2, decoded, typed, mapped,
               swapped, swappedTyped>>

NextNum == Convert

SpecNum == InitNum /\ [][NextNum]_vars

----------------------------------------------------------------------------
(* The type-keyed ApplyDefaults of pkg/jsonschema/schema.go.  Its functions  *)
(* carry the names of the source with the suffix Typed.                      *)

\* for tuple validation the first item schema is used
getItemsSchema(s) ==
  IF s = NilSchema THEN NilSchema
  ELSE IF Sch(s).Items2020 # NilSchema THEN Sch(s).Items2020
  ELSE IF Sch(s).ItemsKind = "none" THEN NilSchema
  ELSE IF Len(Sch(s).Items) > 0 THEN Sch(s).Items[1]
  ELSE NilSchema

RECURSIVE ApplyDefaultsTyped(_, _, _)
RECURSIVE applyDefaultsToObjectTyped(_, _, _)
RECURSIVE propertyLoopTyped(_, _, _, _)
RECURSIVE missingTyped(_, _, _, _)
RECURSIVE existingTyped(_, _, _, _)
RECURSIVE applyDefaultsToArrayTyped(_, _, _)
RECURSIVE itemLoopTyped(_, _, _, _, _)

\* no $ref is followed, so the recursion ends with the schema
ApplyDefaultsTyped(h, data, s) ==
  IF s = NilSchema THEN R(h, data)
  ELSE IF hasType(s, "object") /\ Sch(s).HasProps THEN applyDefaultsToObjectTyped(h, data, s)
  ELSE IF hasType(s, "array") THEN applyDefaultsToArrayTyped(h, data, s)
  ELSE R(h, data)

\* the branch `!exists` of the loop body
missingTyped(h, p, propName, propSchema) ==
  IF Sch(propSchema).Default # Nil
  THEN [h EXCEPT ![p].m[propName] = Sch(propSchema).Default]
  ELSE IF hasType(propSchema, "object")
  THEN (IF Sch(propSchema).HasProps
        THEN Then(emptyMap(h),
                  LAMBDA e : Then(ApplyDefaultsTyped(e.h, e.v, propSchema),
                    LAMBDA r : IF isMap(r.h, r.v) /\ \E k \in Keys : r.h[r.v.v].m[k] # Absent
                               THEN [r.h EXCEPT ![p].m[propName] = r.v]
                               ELSE r.h))
        ELSE h)
  ELSE IF hasType(propSchema, "array")
  THEN Then(emptySlice(h),
            LAMBDA e : IF getItemsSchema(propSchema) # NilSchema
                       THEN Then(ApplyDefaultsTyped(e.h, e.v, propSchema),
                                 LAMBDA r : [r.h EXCEPT ![p].m[propName] = r.v])
                       ELSE [e.h EXCEPT ![p].m[propName] = e.v])
  ELSE h

\* the branch `exists` of the loop body
existingTyped(h, p, propName, propSchema) ==
  IF hasType(propSchema, "object")
  THEN (IF Sch(propSchema).HasProps /\ isMap(h, h[p].m[propName])
        THEN Then(ApplyDefaultsTyped(h, h[p].m[propName], propSchema),
                  LAMBDA r : IF isMap(r.h, r.v)
                             THEN [r.h EXCEPT ![p].m[propName] = r.v]
                             ELSE r.h)
        ELSE h)
  ELSE IF hasType(propSchema, "array")
  THEN (IF getItemsSchema(propSchema) # NilSchema /\ isSlice(h, h[p].m[propName])
        THEN Then(ApplyDefaultsTyped(h, h[p].m[propName], propSchema),
                  LAMBDA r : [r.h EXCEPT ![p].m[propName] = r.v])
        ELSE h)
  ELSE h

\* the loop body without the test for a required property
propertyStepTypedNoRequired(h, p, s, propName) ==
  IF Sch(s).Properties[propName] = NilSchema THEN h
  ELSE IF h[p].m[propName] = Absent
  THEN missingTyped(h, p, propName, Sch(s).Properties[propName])
  ELSE existingTyped(h, p, propName, Sch(s).Properties[propName])

propertyStepTyped(h, p, s, propName) ==
  IF Sch(s).Properties[propName] = NilSchema THEN h
  ELSE IF isRequired(propName, Sch(s).Required) THEN h
  ELSE IF h[p].m[propName] = Absent
  THEN missingTyped(h, p, propName, Sch(s).Properties[propName])
  ELSE existingTyped(h, p, propName, Sch(s).Properties[propName])

propertyLoopTyped(h, p, s, names) ==
  IF names = <<>> THEN h
  ELSE Then(propertyStepTyped(h, p, s, Head(names)),
            LAMBDA h1 : propertyLoopTyped(h1, p, s, Tail(names)))

applyDefaultsToObjectTyped(h, data, s) ==
  IF ~isMap(h, data) THEN R(h, data)
  ELSE IF ~Sch(s).HasProps THEN R(h, data)
  ELSE Then(copyMap(h, data),
            LAMBDA result :
              R(propertyLoopTyped(result.h, result.v.v, s, propertyOrder(s)), result.v))

itemLoopTyped(h, p, itemsSchema, arr, i) ==
  IF i > Len(h[arr.v].a) THEN h
  ELSE Then(ApplyDefaultsTyped(h, h[arr.v].a[i], itemsSchema),
            LAMBDA r : itemLoopTyped([r.h EXCEPT ![p].a[i] = r.v], p, itemsSchema, arr, i + 1))

applyDefaultsToArrayTyped(h, data, s) ==
  IF ~isSlice(h, data) THEN R(h, data)
  ELSE IF getItemsSchema(s) = NilSchema THEN R(h, data)
  ELSE Then(makeSlice(h, data),
            LAMBDA result :
              R(itemLoopTyped(result.h, result.v.v, getItemsSchema(s), data, 1), result.v))

----------------------------------------------------------------------------
(* applyDefaults(data, schema, schemaMap) of pkg/jsonschema: the variant that *)
(* reads the schema as decoded JSON.  The schema map of a node is the JSON    *)
(* text the node was compiled from, so its keys are read off the node.        *)

\* schemaMap["properties"].(map[string]interface{}) succeeds
hasPropertiesMap(s) == s # NilSchema /\ Sch(s).HasProps

\* propMap["default"] is there; the schemas of the model write no
\* "default": null
hasDefaultMap(s) == Sch(s).Default # Nil

\* propMap["type"].(string): a single type is written as a string, several
\* as an array, for which the assertion fails
typeStringMap(s) ==
  IF Cardinality(Sch(s).Types) = 1 THEN CHOOSE x \in Sch(s).Types : TRUE ELSE "none"

RECURSIVE applyDefaultsMap(_, _, _)
RECURSIVE propertyLoopMap(_, _, _, _)
RECURSIVE missingMap(_, _, _, _)

\* the branch `!exists` of the loop body
missingMap(h, p, propName, propMap) ==
  IF hasDefaultMap(propMap)
  THEN [h EXCEPT ![p].m[propName] = Sch(propMap).Default]
  ELSE IF typeStringMap(propMap) = "object"
  THEN (IF hasPropertiesMap(propMap)
        THEN Then(emptyMap(h),
                  LAMBDA e : Then(applyDefaultsMap(e.h, e.v, propMap),
                    LAMBDA r : IF \E k \in Keys : r.h[r.v.v].m[k] # Absent
                               THEN [r.h EXCEPT ![p].m[propName] = r.v]
                               ELSE r.h))
        ELSE h)
  ELSE IF typeStringMap(propMap) = "array"
  THEN Then(emptySlice(h), LAMBDA e : [e.h EXCEPT ![p].m[propName] = e.v])
  ELSE h

\* the branch `exists` of the loop body
existingMap(h, p, propName, propMap) ==
  IF isMap(h, h[p].m[propName]) /\ hasPropertiesMap(propMap)
  THEN Then(applyDefaultsMap(h, h[p].m[propName], propMap),
            LAMBDA r : IF isMap(r.h, r.v)
                       THEN [r.h EXCEPT ![p].m[propName] = r.v]
                       ELSE r.h)
  ELSE h

\* the loop body that leaves a supplied nested object as it is
propertyStepMapShallow(h, p, s, propName) ==
  IF h[p].m[propName] = Absent
  THEN missingMap(h, p, propName, Sch(s).Properties[propName])
  ELSE h

propertyStepMap(h, p, s, propName) ==
  IF h[p].m[propName] = Absent
  THEN missingMap(h, p, propName, Sch(s).Properties[propName])
  ELSE existingMap(h, p, propName, Sch(s).Properties[propName])

propertyLoopMap(h, p, s, names) ==
  IF names = <<>> THEN h
  ELSE Then(propertyStepMap(h, p, s, Head(names)),
            LAMBDA h1 : propertyLoopMap(h1, p, s, Tail(names)))

\* the recursive calls pass {"properties": nestedProps}, of which the callee
\* reads "properties" only: the node stands for that map
applyDefaultsMap(h, data, schemaMap) ==
  IF schemaMap = NilSchema THEN R(h, data)
  ELSE IF ~hasPropertiesMap(schemaMap) THEN R(h, data)
  ELSE IF ~isMap(h, data) THEN R(h, data)
  ELSE Then(copyMap(h, data),
            LAMBDA result :
              R(propertyLoopMap(result.h, result.v.v, schemaMap, propertyOrder(schemaMap)),
                result.v))

----------------------------------------------------------------------------
(* A caller that hands one document to the three variants *)

VariantRoots ==
  { NilSchema, "RBasic", "RLits", "RLits2", "RArrs", "RTyped", "RHollow", "RMixed", "ObjIn",
    "ArrObj", "ArrTuple", "ArrTuple0", "ArrNoItems", "Arr2020" }

InitVariants ==
  /\ schema \in VariantRoots
  /\ order \in Orders
  /\ out = NoValue
  /\ out2 = NoValue
  /\ pc = "parsed"
  /\ \E st \in Parsed : heap = st.h /\ pre = st.h /\ input = st.v
  /\ decoded = NoValue
  /\ converted = NoValue
  /\ typed = NoValue
  /\ mapped = NoValue
  /\ swapped = NoValue
  /\ swappedTyped = NoValue

\* resultT := ApplyDefaults(data, schema) of schema.go
ApplyTyped ==
  /\ pc = "applied"
  /\ typed = NoValue
  /\ typed' = Deref(ApplyDefaultsTyped(pre, input, schema).h,
                    ApplyDefaultsTyped(pre, input, schema).v)
  /\ UNCHANGED <<heap, pre, schema, input, order, out, out2, pc, decoded, converted, mapped,
               swapped, swappedTyped>>

\* resultM := applyDefaults(data, schema, schemaMap)
ApplyMap ==
  /\ typed # NoValue
  /\ mapped = NoValue
  /\ mapped' = Deref(applyDefaultsMap(pre, input, schema).h,
                     applyDefaultsMap(pre, input, schema).v)
  /\ UNCHANGED <<heap, pre, schema, input, order, out, out2, pc, decoded, converted, typed,
               swapped, swappedTyped>>

NextVariants == Apply \/ ApplyTyped \/ ApplyMap

SpecVariants == InitVariants /\ [][NextVariants]_vars

----------------------------------------------------------------------------
(* A caller that hands its documents to schemas with allOf, anyOf and oneOf *)

CombinationRoots ==
  { "RAllOf", "RAllOfLit", "ROneOf", "RAnyOf", "RCombos", "ComboAll", "ComboChoice",
    "RHints", "RAnyOrder" }

InitCombination ==
  /\ schema \in CombinationRoots
  /\ order \in Orders
  /\ out = NoValue
  /\ out2 = NoValue
  /\ pc = "parsed"
  /\ \E st \in Parsed : heap = st.h /\ pre = st.h /\ input = st.v
  /\ decoded = NoValue
  /\ converted = NoValue
  /\ typed = NoValue
  /\ mapped = NoValue
  /\ swapped = NoValue
  /\ swappedTyped = NoValue

NextCombination == Apply

SpecCombination == InitCombination /\ [][NextCombination]_vars

----------------------------------------------------------------------------
(* A caller that runs the same call twice, the property maps ranged over in
   two different orders *)

OrderRoots ==
  { "RBasic", "RLits", "RArrs", "RTyped", "RMixed", "RAllOf", "RCombos", "RHints",
    "RRef" }

\* the first call ranges in the order a, b, c; every other order is compared
\* with it
InitOrder ==
  /\ schema \in OrderRoots
  /\ order = <<"a", "b", "c">>
  /\ out = NoValue
  /\ out2 = NoValue
  /\ pc = "parsed"
  /\ \E st \in Parsed : heap = st.h /\ pre = st.h /\ input = st.v
  /\ decoded = NoValue
  /\ converted = NoValue
  /\ typed = NoValue
  /\ mapped = NoValue
  /\ swapped = NoValue
  /\ swappedTyped = NoValue

\* the program is run once more on the document as it was parsed, the ranges
\* over the property maps now visiting the names in another order; what the
\* first run returned is kept for the comparison
Reorder ==
  /\ pc = "applied"
  /\ typed # NoValue
  /\ swapped = NoValue
  /\ swapped' = Deref(heap, out)
  /\ swappedTyped' = typed
  /\ order' \in Orders \ {order}
  /\ heap' = pre
  /\ out' = NoValue
  /\ typed' = NoValue
  /\ pc' = "parsed"
  /\ UNCHANGED <<pre, schema, input, out2, decoded, converted, mapped>>

NextOrder == Apply \/ ApplyTyped \/ Reorder

SpecOrder == InitOrder /\ [][NextOrder]_vars

----------------------------------------------------------------------------
(* What the claims speak about *)

\* the document handed to the first call and the documents the calls returned
In == Deref(pre, input)
Out == Deref(heap, out)
Out2 == Deref(heap, out2)

\* the node the dispatcher works on: the end of the root's $ref chain
Node == resolveRef(schema)

\* there is such a node
Resolves == schema # NilSchema /\ Node # Hang

Called == pc \in {"applied", "reapplied"}

IsObj(tr) == tr.t = "obj"
IsArr(tr) == tr.t = "arr"
KeysOf(tr) == { k \in Keys : tr.m[k] # Absent }

\* the first call worked on an object, with the properties of Node and no
\* combination keyword
PlainObjectCase ==
  /\ Called
  /\ Resolves
  /\ combinationMode(Node) = "none"
  /\ Sch(Node).HasProps
  /\ IsObj(In)

\* a property schema whose literal default is a scalar and is what a missing
\* property gets: no object or array shape is hinted
ScalarDefault(ps) ==
  /\ structureHint(resolveRef(ps)) = "none"
  /\ Sch(resolveRef(ps)).Default.t \in {"num", "str"}

----------------------------------------------------------------------------
\* C1: for an object node without allOf/anyOf/oneOf, a property listed in
\* `required` and missing from the input is missing from the output, whatever
\* default its schema declares, and the missing non-required properties with
\* scalar defaults are inserted all the same.
C1_RequiredExclusion ==
  PlainObjectCase =>
    /\ \A k \in Sch(Node).Required : In.m[k] = Absent => Out.m[k] = Absent
    /\ \A k \in DOMAIN Sch(Node).Properties \ Sch(Node).Required :
         (In.m[k] = Absent /\ ScalarDefault(Sch(Node).Properties[k]))
           => Out.m[k] = Sch(resolveRef(Sch(Node).Properties[k])).Default

\* RBasic on an input without "a" (required, default 7) and without "b"
C1_Witness ==
  /\ PlainObjectCase
  /\ Node = "RBasic"
  /\ In.m["a"] = Absent /\ In.m["b"] = Absent
  /\ Out.m["a"] = Absent /\ Out.m["b"] = Str(8)

\* C2: for every schema, also a node that declares `required` next to
\* allOf/anyOf/oneOf, a property the dispatched node lists as required and the
\* input lacks is absent from the result.
C2_RequiredNeverDefaulted ==
  (Called /\ Resolves /\ IsObj(In) /\ IsObj(Out)) =>
    \A k \in Sch(Node).Required : In.m[k] = Absent => Out.m[k] = Absent

\* C3: an explicit null is kept wherever it stands: at the top, as the value
\* of an object property, as an array element.
RECURSIVE NullsKept(_, _)
NullsKept(i, o) ==
  IF i = Nil THEN o = Nil
  ELSE IF IsObj(i)
    THEN IsObj(o) /\ \A k \in KeysOf(i) : NullsKept(i.m[k], o.m[k])
  ELSE IF IsArr(i)
    THEN IsArr(o) /\ Len(o.a) = Len(i.a)
         /\ \A n \in 1..Len(i.a) : NullsKept(i.a[n], o.a[n])
  ELSE TRUE

C3_NullPreserved == Called => NullsKept(In, Out)

\* RBasic: "b" (default "d") is null, and so is "a" inside the object at "c"
C3_Witness ==
  /\ Called
  /\ Node = "RBasic"
  /\ IsObj(In)
  /\ In.m["b"] = Nil /\ Out.m["b"] = Nil
  /\ IsObj(In.m["c"]) /\ In.m["c"].m["a"] = Nil /\ Out.m["c"].m["a"] = Nil

\* C4: no call writes to a map or slice that existed before it: the caller's
\* document and the schema's literals are cell for cell what they were.
C4_InputNotMutated ==
  Called =>
    /\ \A p \in 1..Len(pre) : pre[p].k # "list" => heap[p] = pre[p]
    /\ Deref(heap, input) = In

\* an allOf fold over an object that gained defaults
C4_Witness ==
  /\ pc = "reapplied"
  /\ Node = "RAllOf"
  /\ IsObj(In)
  /\ KeysOf(In) = {"b"}
  /\ KeysOf(Out) = Keys
  /\ Deref(heap, input) = In

----------------------------------------------------------------------------
(* Nodes of a schema *)

Range(f) == { f[x] : x \in DOMAIN f }

\* the nodes a node names in its keywords
Children(s) ==
  ( {Sch(s).Ref, Sch(s).Items2020}
    \cup Range(Sch(s).Properties) \cup Range(Sch(s).Items)
    \cup Range(Sch(s).AllOf) \cup Range(Sch(s).AnyOf) \cup Range(Sch(s).OneOf) )
  \ {NilSchema}

RECURSIVE ReachFrom(_, _)
ReachFrom(seen, frontier) ==
  IF frontier = {} THEN seen
  ELSE LET new == (UNION { Children(s) : s \in frontier }) \ seen
       IN ReachFrom(seen \cup new, new)

\* the nodes of the schema rooted at s
Nodes(s) == IF s = NilSchema THEN {} ELSE ReachFrom({s}, {s})

\* no node of the schema declares allOf, anyOf or oneOf
NoCombination(s) == \A n \in Nodes(s) : combinationMode(n) = "none"

\* no node of the schema declares anyOf or oneOf
NoChoice(s) == \A n \in Nodes(s) : Sch(n).AnyOf = <<>> /\ Sch(n).OneOf = <<>>

\* the tree a call returns
Tree(r) == Deref(r.h, r.v)

----------------------------------------------------------------------------
\* C5 as stated: ApplyDefaults is idempotent for any document and any schema,
\* also with anyOf/oneOf and with object literals as defaults.
C5_Idempotent == pc = "reapplied" => Out2 = Out

\* C5 as amended: for a schema none of whose nodes declares allOf, anyOf or
\* oneOf, applying the defaults to the result of ApplyDefaults returns that
\* result.
C5_IdempotentWithoutCombination ==
  (pc = "reapplied" /\ NoCombination(schema)) => Out2 = Out

\* RLits on {}: "a" is built from {} and "c" is the literal {"a": 5}
C5_Witness ==
  /\ pc = "reapplied"
  /\ schema = "RLits"
  /\ In = Obj(EmptyMap)
  /\ Out.m["a"] = Obj(Set("a", Num(7)))
  /\ Out.m["c"] = Obj(Set("a", Num(5)))
  /\ Out2 = Out

\* the first call worked on an object, with the properties of Node
ObjectCase ==
  /\ Called
  /\ Resolves
  /\ Sch(Node).HasProps
  /\ IsObj(In)

\* the literal default of a property schema
DefaultOf(ps) == Sch(resolveRef(ps)).Default

\* C6 as stated: a non-required property that the input lacks and whose
\* schema declares a literal default is mapped to exactly that default,
\* whatever its type and also when the default is an empty object or array.
C6_LiteralDefaultInserted ==
  ObjectCase =>
    \A k \in DOMAIN Sch(Node).Properties \ Sch(Node).Required :
      (In.m[k] = Absent /\ DefaultOf(Sch(Node).Properties[k]) # Nil)
        => Out.m[k] = Deref(pre, DefaultOf(Sch(Node).Properties[k]))

\* C6 as amended: at an object node without allOf/anyOf/oneOf, a non-required
\* property that the input lacks is mapped to exactly its literal default when
\* its resolved schema has no object or array shape (no properties, no
\* object/array type, no such combination child) and the default is not an
\* empty object or empty array.
C6_ShapelessDefaultInserted ==
  PlainObjectCase =>
    \A k \in DOMAIN Sch(Node).Properties \ Sch(Node).Required :
      ( /\ In.m[k] = Absent
        /\ structureHint(resolveRef(Sch(Node).Properties[k])) = "none"
        /\ shouldAddValue(pre, DefaultOf(Sch(Node).Properties[k])) )
        => Out.m[k] = Deref(pre, DefaultOf(Sch(Node).Properties[k]))

\* RLits without "c": the literal {"a": 5} is what the result holds at "c"
C6_Witness ==
  /\ PlainObjectCase
  /\ Node = "RLits"
  /\ In.m["c"] = Absent
  /\ In.m["a"] = Num(1)
  /\ Out.m["c"] = Obj(Set("a", Num(5)))

\* what the caller supplied is in the result, at the same place
RECURSIVE Preserved(_, _)
Preserved(i, o) ==
  IF IsObj(i)
    THEN IsObj(o) /\ \A k \in KeysOf(i) : Preserved(i.m[k], o.m[k])
  ELSE IF IsArr(i)
    THEN IsArr(o) /\ Len(o.a) = Len(i.a)
         /\ \A n \in 1..Len(i.a) : Preserved(i.a[n], o.a[n])
  ELSE o = i

\* C7: ApplyDefaults only adds.  Every key of an input object is a key of the
\* matching output object, every scalar the caller supplied is unchanged at
\* its path (so a default is written only where the key was absent), and a
\* key the node's properties do not declare is copied verbatim.
C7_OnlyAdds ==
  /\ Called => Preserved(In, Out)
  /\ PlainObjectCase =>
       \A k \in Keys \ DOMAIN Sch(Node).Properties : Out.m[k] = In.m[k]

\* ObjIn declares "a" only: "b" and "c" are copied, "a" is defaulted
C7_Witness ==
  /\ PlainObjectCase
  /\ Node = "ObjIn"
  /\ In.m["a"] = Absent
  /\ In.m["b"] = Str(1)
  /\ In.m["c"] = Obj(Set("a", Nil))
  /\ Out.m["a"] = Num(7)
  /\ Out.m["b"] = Str(1)
  /\ Out.m["c"] = Obj(Set("a", Nil))

\* the first call handed an array to the array applier of Node
ArrayApplierCase ==
  /\ Called
  /\ Resolves
  /\ combinationMode(Node) = "none"
  /\ ~Sch(Node).HasProps
  /\ hasType(Node, "array")
  /\ IsArr(In)

\* element i (from 1) of the array the first call was given
Element(i) == pre[input.v].a[i]

\* C8: with tuple items S0..Sk-1 element i gets Si when i < k and the last
\* schema Sk-1 when i >= k; with a single items schema every element gets it.
C8_TupleOverflow ==
  ( /\ ArrayApplierCase
    /\ Sch(Node).Items2020 = NilSchema
    /\ Sch(Node).ItemsKind \in {"single", "tuple"}
    /\ Len(Sch(Node).Items) > 0 ) =>
    LET k == Len(Sch(Node).Items)
        S(i) == IF Sch(Node).ItemsKind = "single" THEN Sch(Node).Items[1]
                ELSE IF i - 1 < k THEN Sch(Node).Items[i] ELSE Sch(Node).Items[k]
    IN /\ IsArr(Out) /\ Len(Out.a) = Len(In.a)
       /\ \A i \in 1..Len(In.a) :
            Out.a[i] = Tree(ApplyDefaults(pre, Element(i), S(i), MaxDepth))

\* [ObjIn, ObjInB] on three objects: the third gets the default of ObjInB
C8_Witness ==
  /\ ArrayApplierCase
  /\ Node = "ArrTuple"
  /\ Len(In.a) = 3
  /\ In.a[3] = Obj(EmptyMap)
  /\ Out.a[1] = Obj(Set("a", Num(7)))
  /\ Out.a[3] = Obj(Set("b", Str(8)))

\* arrays keep their length, wherever they stand in the document
RECURSIVE LengthsKept(_, _)
LengthsKept(i, o) ==
  IF IsObj(i)
    THEN IsObj(o) /\ \A k \in KeysOf(i) : LengthsKept(i.m[k], o.m[k])
  ELSE IF IsArr(i)
    THEN IsArr(o) /\ Len(o.a) = Len(i.a)
         /\ \A n \in 1..Len(i.a) : LengthsKept(i.a[n], o.a[n])
  ELSE TRUE

\* C9: the array applier returns an array of the input's length whose element
\* i is ApplyDefaults(input[i], item schema for i), the element itself when
\* there is no item schema; no array of the document changes its length.
C9_ArrayShape ==
  /\ Called => LengthsKept(In, Out)
  /\ ArrayApplierCase =>
       /\ IsArr(Out) /\ Len(Out.a) = Len(In.a)
       /\ \A i \in 1..Len(In.a) :
            Out.a[i] = Tree(ApplyDefaults(pre, Element(i),
                                          getItemsSchemaForIndex(Node, i - 1), MaxDepth))

\* an array without items schema keeps its empty object and its null; so do
\* the arrays inside an object
C9_Witness ==
  /\ ArrayApplierCase
  /\ Node = "ArrNoItems"
  /\ In.a = <<Obj(EmptyMap), Nil, Num(1)>>
  /\ Out = In

\* the keys a layer of an allOf node gives to the empty object on its own
LayerAlone(i) ==
  Tree(IF i <= Len(Sch(Node).AllOf)
       THEN ApplyDefaults(pre, input, Sch(Node).AllOf[i], MaxDepth)
       ELSE applyDefaultsToBaseSchema(pre, input, Node, MaxDepth))

\* C10: for a node with allOf (and no anyOf/oneOf in the schema) and the input
\* {}, the keys of the result are the union of the keys each allOf subschema
\* and the node's own properties give to {}, and a scalar of the result is
\* the default one of these layers declares.
C10_AllOfUnion ==
  ( /\ Called
    /\ Resolves
    /\ combinationMode(Node) = "allOf"
    /\ NoChoice(schema)
    /\ In = Obj(EmptyMap) ) =>
    LET layers == 1..(Len(Sch(Node).AllOf) + 1)
    IN /\ IsObj(Out)
       /\ KeysOf(Out) = UNION { KeysOf(LayerAlone(i)) : i \in layers }
       /\ \A k \in KeysOf(Out) :
            Out.m[k].t \in {"num", "str"}
              => \E i \in layers : LayerAlone(i).m[k] = Out.m[k]

\* RAllOf: "a" from the first subschema, "b" from the second (behind a $ref),
\* "c" from the node's own properties
C10_Witness ==
  /\ Called
  /\ Node = "RAllOf"
  /\ In = Obj(EmptyMap)
  /\ Out = Obj([a |-> Num(7), b |-> Str(8), c |-> Num(9)])

----------------------------------------------------------------------------
\* subschema i of the allOf list of Node declares k with a scalar default
\* that a missing k receives
DeclaresScalar(i, k) ==
  LET sub == resolveRef(Sch(Node).AllOf[i])
  IN /\ combinationMode(sub) = "none"
     /\ k \in DOMAIN Sch(sub).Properties
     /\ k \notin Sch(sub).Required
     /\ ScalarDefault(Sch(sub).Properties[k])

\* subschema i of the allOf list of Node cannot write k
Silent(i, k) ==
  LET sub == resolveRef(Sch(Node).AllOf[i])
  IN combinationMode(sub) = "none" /\ k \notin DOMAIN Sch(sub).Properties

\* two subschemas declare different scalar defaults for k, i being the first
\* of the list to declare k, and the input object lacks k
OverlappingDefaults(i, j, k) ==
  /\ Called
  /\ Resolves
  /\ combinationMode(Node) = "allOf"
  /\ IsObj(In) /\ In.m[k] = Absent
  /\ i < j
  /\ \A e \in 1..(i - 1) : Silent(e, k)
  /\ DeclaresScalar(i, k) /\ DeclaresScalar(j, k)
  /\ DefaultOf(Sch(resolveRef(Sch(Node).AllOf[i])).Properties[k])
       # DefaultOf(Sch(resolveRef(Sch(Node).AllOf[j])).Properties[k])

\* the positions of the allOf list of Node
AllOfIndex == IF ~Resolves THEN {} ELSE 1..Len(Sch(Node).AllOf)

\* C11 as stated: when two allOf subschemas declare different defaults for a
\* property the input lacks, the output carries the default of the later one.
C11_LastDefaultWins ==
  \A k \in Keys : \A i, j \in AllOfIndex :
    OverlappingDefaults(i, j, k) =>
      Out.m[k] = DefaultOf(Sch(resolveRef(Sch(Node).AllOf[j])).Properties[k])

\* C11 as amended: the output carries the default of the earlier subschema,
\* the first of the list to declare the property; a later default finds the
\* key present and leaves it.
C11_FirstDefaultWins ==
  \A k \in Keys : \A i, j \in AllOfIndex :
    OverlappingDefaults(i, j, k) =>
      Out.m[k] = DefaultOf(Sch(resolveRef(Sch(Node).AllOf[i])).Properties[k])

\* RAllOf: "a" is 7 in the first subschema and 9 in the second
C11_Witness ==
  /\ OverlappingDefaults(1, 2, "a")
  /\ Node = "RAllOf"
  /\ Out.m["a"] = Num(7)

----------------------------------------------------------------------------
(* oneOf and anyOf *)

\* the first call worked on an object at a node dispatched as `mode`, whose
\* branches hold no anyOf/oneOf of their own
ChoiceCase(mode) ==
  /\ Called
  /\ Resolves
  /\ combinationMode(Node) = mode
  /\ \A b \in Range(combinationSubschemas(Node, mode)) : NoChoice(b)
  /\ IsObj(In)

\* the branches of Node and those the input validates against
Branches == IF ~Resolves THEN <<>>
            ELSE combinationSubschemas(Node, combinationMode(Node))
Matching == { i \in DOMAIN Branches : Validate(pre, Branches[i], input) }

\* what branch i alone, and the node's own properties alone, make of the input
BranchAlone(i) == Tree(ApplyDefaults(pre, input, Branches[i], MaxDepth))
BaseAlone == Tree(applyDefaultsToBaseSchema(pre, input, Node, MaxDepth))

\* the keys the branches of `applied` and the node's own pass give the input
KeysFrom(applied) ==
  KeysOf(BaseAlone) \cup UNION { KeysOf(BranchAlone(i)) : i \in applied }

\* a scalar written at a key the input lacked is the one of the first branch
\* of `applied` that writes the key
InListOrder(applied) ==
  \A k \in KeysOf(Out) \ KeysOf(In) : \A i \in applied :
    ( /\ k \in KeysOf(BranchAlone(i))
      /\ \A e \in applied : e < i => k \notin KeysOf(BranchAlone(e))
      /\ BranchAlone(i).m[k].t \in {"num", "str"} )
      => Out.m[k] = BranchAlone(i).m[k]

\* C12: when exactly one oneOf subschema validates the input, only its
\* defaults are applied (and then the node's own): the output has no key that
\* only a branch that does not validate would have defaulted.
C12_OneOfUniqueMatch ==
  (ChoiceCase("oneOf") /\ Cardinality(Matching) = 1) =>
    /\ KeysOf(Out) = KeysFrom(Matching)
    /\ InListOrder(Matching)

\* ROneOf on {}: only the second branch validates, "a" is not defaulted
C12_Witness ==
  /\ ChoiceCase("oneOf")
  /\ Node = "ROneOf"
  /\ In = Obj(EmptyMap)
  /\ Matching = {2}
  /\ "a" \in KeysOf(BranchAlone(1))
  /\ Out = Obj(Set("b", Str(8)))

C14_AnyOfMatching ==
  ChoiceCase("anyOf") =>
    LET applied == IF Matching # {} THEN Matching ELSE DOMAIN Branches
    IN /\ KeysOf(Out) = KeysFrom(applied)
       /\ InListOrder(applied)

\* RAnyOf on {"a": 1}: only the first branch validates; "b" is its default
\* and "c" is the node's own 9, not the 7 of the second branch
C14_Witness ==
  /\ ChoiceCase("anyOf")
  /\ Node = "RAnyOf"
  /\ In = Obj(Set("a", Num(1)))
  /\ Matching = {1}
  /\ BranchAlone(2).m["c"] = Num(7)
  /\ Out = Obj([a |-> Num(1), b |-> Str(8), c |-> Num(9)])

----------------------------------------------------------------------------
\* the value the input object holds at k, as the first call received it
Supplied(k) == pre[input.v].m[k]

\* C15: at an object node without combination keywords, a non-required
\* property that is present and not null maps in the output to
\* ApplyDefaults(its value, its schema): a nested object, also behind a $ref,
\* gets its interior defaults and each element of an array is defaulted.
C15_PresentValueRecursed ==
  PlainObjectCase =>
    \A k \in DOMAIN Sch(Node).Properties \ Sch(Node).Required :
      (In.m[k] # Absent /\ In.m[k] # Nil) =>
        Out.m[k] = Tree(ApplyDefaults(pre, Supplied(k), Sch(Node).Properties[k], MaxDepth))

\* RMixed: the object at "c", whose schema is a $ref to a $ref to ObjIn, gets
\* the default of "a" inside
C15_Witness ==
  /\ PlainObjectCase
  /\ Node = "RMixed"
  /\ Sch(Sch(Node).Properties["c"]).Ref # NilSchema
  /\ In.m["a"] = Num(1)
  /\ In.m["c"] = Obj(EmptyMap)
  /\ Out.m["a"] = Num(1)
  /\ Out.m["c"] = Obj(Set("a", Num(7)))

----------------------------------------------------------------------------
(* Calls that do not return *)

\* the cases in which the dispatcher has nothing to do: no schema, properties
\* for a value that is no object, array type for a value that is no array
NothingToDo ==
  \/ schema = NilSchema
  \/ /\ Resolves
     /\ combinationMode(Node) = "none"
     /\ \/ Sch(Node).HasProps /\ ~IsObj(In)
        \/ ~Sch(Node).HasProps /\ hasType(Node, "array") /\ ~IsArr(In)

\* C16: ApplyDefaults has no error outcome: no call raises or aborts, whatever
\* the document and the schema, and the value comes back unchanged when the
\* schema is nil, or declares properties and the value is no object, or has
\* array type and the value is no array.
C16_NoErrorOutcome ==
  /\ pc # "overflow"
  /\ (Called /\ NothingToDo) => Out = In

\* every $ref chain of the schema reaches a node that is no reference
RefChainsEnd(s) == \A n \in Nodes(s) : resolveRef(n) # Hang

\* C17: for a schema in which each $ref chain reaches a non-reference node,
\* also a self-referential one, ApplyDefaults terminates on every document.
C17_Terminates ==
  RefChainsEnd(schema) => pc \notin {"overflow", "hung"}

----------------------------------------------------------------------------
(* Memory of the schema *)

----------------------------------------------------------------------------
\* a key the output has and the input lacks holds neither null nor an empty
\* object nor an empty array, in every object of the document
RECURSIVE NewKeysFilled(_, _)
NewKeysFilled(i, o) ==
  IF IsObj(i) /\ IsObj(o)
    THEN \A k \in KeysOf(o) :
           IF i.m[k] = Absent
           THEN o.m[k] \notin {Nil, Obj(EmptyMap), Arr(<<>>)}
           ELSE NewKeysFilled(i.m[k], o.m[k])
  ELSE IF IsArr(i) /\ IsArr(o) /\ Len(i.a) = Len(o.a)
    THEN \A n \in 1..Len(i.a) : NewKeysFilled(i.a[n], o.a[n])
  ELSE TRUE

\* no node of the schema declares a default
NoDefaults(s) == \A n \in Nodes(s) : Sch(n).Default = Nil

\* C19: a key that is in an output object and not in the matching input object
\* maps to a value that is not null, not {} and not []; a missing property
\* that is array-typed, or whose schema declares no default anywhere, is not
\* inserted.
C19_NothingEmptyInserted ==
  /\ Called => NewKeysFilled(In, Out)
  /\ PlainObjectCase =>
       \A k \in DOMAIN Sch(Node).Properties :
         ( /\ In.m[k] = Absent
           /\ \/ structureHint(resolveRef(Sch(Node).Properties[k])) = "array"
              \/ NoDefaults(Sch(Node).Properties[k]) )
           => Out.m[k] = Absent

\* RLits2 on {"b": {}}: the array-typed "a" and the object-typed "c" without
\* defaults are not inserted; inside the supplied "b" nothing is added
C19_Witness ==
  /\ PlainObjectCase
  /\ Node = "RLits2"
  /\ hasType(Sch(Node).Properties["a"], "array")
  /\ hasType(Sch(Node).Properties["c"], "object")
  /\ In = Obj(Set("b", Obj(EmptyMap)))
  /\ Out = In

----------------------------------------------------------------------------
(* Numbers *)

\* the literal's value is an integer written without '.', 'e' or 'E' and lies
\* in [-2^63, 2^63 - 1]
SafeInteger(l) ==
  /\ ~l.dot /\ l.e = ""
  /\ DigitsLeq(l.int, IF l.neg THEN MinInt64 ELSE MaxInt64)

\* every number of the document was converted as C20 says
RECURSIVE ConvertedAsClaimed(_, _)
ConvertedAsClaimed(d, c) ==
  IF d.t = "obj"
    THEN c.t = "obj" /\ \A k \in Keys :
           IF d.m[k] = Absent THEN c.m[k] = Absent
           ELSE ConvertedAsClaimed(d.m[k], c.m[k])
  ELSE IF d.t = "arr"
    THEN c.t = "arr" /\ Len(c.a) = Len(d.a)
         /\ \A i \in 1..Len(d.a) : ConvertedAsClaimed(d.a[i], c.a[i])
  ELSE IF d.t = "number"
    THEN c = IF SafeInteger(d.lit) THEN Int64(d.lit) ELSE Float64(d.lit)
  ELSE c = d

\* C20: a number literal becomes int64 exactly when it has no '.', 'e' or 'E'
\* and its value lies in [-2^63, 2^63 - 1]; every other number literal becomes
\* float64; this holds for the numbers at every depth of the document.
C20_IntOrFloat ==
  pc = "converted" => ConvertedAsClaimed(decoded, converted)

----------------------------------------------------------------------------
(* Cyclic references *)

\* the $ref chain that starts at s never reaches a node that is no reference
RECURSIVE RefLoops(_, _)
RefLoops(s, seen) ==
  IF Sch(s).Ref = NilSchema THEN FALSE
  ELSE IF Sch(s).Ref \in seen THEN TRUE
  ELSE RefLoops(Sch(s).Ref, seen \cup {Sch(s).Ref})
Cyclic(s) == s # NilSchema /\ RefLoops(s, {s})

\* the call resolves a cyclic chain: at the root, for a document that is not
\* null, or at a property of the root object that is not required and not
\* supplied as null
ResolvesCycle ==
  \/ Cyclic(schema) /\ input # Nil
  \/ /\ Resolves
     /\ combinationMode(Node) = "none"
     /\ Sch(Node).HasProps
     /\ IsObj(In)
     /\ \E k \in DOMAIN Sch(Node).Properties :
          /\ Cyclic(Sch(Node).Properties[k])
          /\ ~isRequired(k, Sch(Node).Required)
          /\ In.m[k] # Nil

\* C22: when ApplyDefaults resolves a $ref chain that is cyclic (A refers to B
\* and B back to A), the resolution never ends: the call returns no result and
\* reports no error.
C22_CyclicRefHangs ==
  (pc # "parsed" /\ ResolvesCycle) => (pc = "hung" /\ out = NoValue)

\* CycA -> CycB -> CycA on the document {}
C22_Witness ==
  /\ schema = "CycA"
  /\ Sch("CycA").Ref = "CycB" /\ Sch("CycB").Ref = "CycA"
  /\ In = Obj(EmptyMap)
  /\ pc = "hung"

----------------------------------------------------------------------------
(* Precedence of the combination keywords *)

\* how many of allOf, oneOf, anyOf the node declares
Declared(n) ==
  Cardinality({ i \in 1..3 : <<Sch(n).AllOf, Sch(n).OneOf, Sch(n).AnyOf>>[i] # <<>> })

\* the node without the keywords that come after its first one in the order
\* allOf, oneOf, anyOf
FirstKeywordOnly(n) ==
  IF Sch(n).AllOf # <<>>
  THEN [Sch(n) EXCEPT !.OneOf = <<>>, !.AnyOf = <<>>, !.AllOfAt = 0]
  ELSE [Sch(n) EXCEPT !.AnyOf = <<>>]

\* the root declares more than one combination keyword
DispatchCase == Called /\ Resolves /\ Declared(Node) > 1

\* C24: a node that declares allOf together with oneOf and/or anyOf gets the
\* defaults of its allOf subschemas and of its own properties/array rule and
\* nothing from oneOf/anyOf; a node that declares oneOf and anyOf without allOf
\* gets those of oneOf only: the output is the output for the same node with
\* the later keywords removed.
C24_DispatchPrecedence ==
  DispatchCase =>
    \E m \in SchemaNames :
      /\ Sch(m) = FirstKeywordOnly(Node)
      /\ Out = Tree(ApplyDefaults(pre, input, m, MaxDepth))

\* allOf together with oneOf and anyOf on {}: "a" from allOf, no "b" from
\* oneOf, no "c" from anyOf
C24_Witness ==
  /\ DispatchCase
  /\ Node = "ComboAll"
  /\ In = Obj(EmptyMap)
  /\ Out = Obj(Set("a", Num(7)))
  /\ Tree(ApplyDefaults(pre, input, "OneB", MaxDepth)) = Obj(Set("b", Str(8)))
  /\ Tree(ApplyDefaults(pre, input, "AnyB", MaxDepth)) = Obj(Set("c", Num(7)))

----------------------------------------------------------------------------
(* Required properties that are supplied *)

\* C23: the object applier of a node never touches a property the node lists
\* in `required`: missing it stays missing, and supplied, also with an object
\* or an array, the output holds the very value of the input at that key, with
\* no default applied inside it.
C23_RequiredUntouched ==
  PlainObjectCase =>
    \A k \in Sch(Node).Required :
      /\ heap[out.v].m[k] = pre[input.v].m[k]
      /\ Out.m[k] = In.m[k]

\* RArrs requires "c", whose schema would put "a": 7 into an object
C23_Witness ==
  /\ PlainObjectCase
  /\ Node = "RArrs"
  /\ "c" \in Sch(Node).Required
  /\ In.m["c"] = Obj(EmptyMap)
  /\ Out.m["c"] = Obj(EmptyMap)
  /\ Tree(ApplyDefaults(pre, pre[input.v].m["c"], Sch(Node).Properties["c"], MaxDepth))
       = Obj(Set("a", Num(7)))

----------------------------------------------------------------------------
(* The schema-map variant *)

\* o is i with the declared default at every missing declared key, every
\* supplied value kept, and the same inside a supplied object whose property
\* schema declares properties
RECURSIVE FilledFromMap(_, _, _)
FilledFromMap(n, i, o) ==
  /\ IsObj(o)
  /\ \A k \in Keys :
       IF i.m[k] # Absent
       THEN IF k \in DOMAIN Sch(n).Properties
               /\ IsObj(i.m[k]) /\ Sch(Sch(n).Properties[k]).HasProps
            THEN FilledFromMap(Sch(n).Properties[k], i.m[k], o.m[k])
            ELSE o.m[k] = i.m[k]
       ELSE IF k \notin DOMAIN Sch(n).Properties THEN o.m[k] = Absent
       ELSE Sch(Sch(n).Properties[k]).Default # Nil =>
              o.m[k] = Deref(SchemaHeap, Sch(Sch(n).Properties[k]).Default)

\* applyDefaults(data, schema, schemaMap) has returned for an object
MapCase == mapped # NoValue /\ IsObj(In)

\* C21: for an object input the schema-map variant returns an object that
\* keeps every supplied key and value, holds the declared default of every
\* property the input lacks, and is filled in the same way inside a supplied
\* nested object whose property schema declares properties; {} gets all the
\* declared top-level defaults.
C21_MapVariantFills ==
  MapCase =>
    IF hasPropertiesMap(schema) THEN FilledFromMap(schema, In, mapped) ELSE mapped = In

\* RBasic on {"c": {}}: "a" and "b" get their defaults, the supplied "c" gets
\* the default of its own "a"
C21_Witness ==
  /\ MapCase
  /\ schema = "RBasic"
  /\ In = Obj(Set("c", Obj(EmptyMap)))
  /\ mapped = Obj([a |-> Num(7), b |-> Str(8), c |-> Obj(Set("a", Num(7)))])

----------------------------------------------------------------------------
(* The type-keyed variant against the permissive one *)

\* no node of the schema is a $ref
RefFree(s) == \A n \in Nodes(s) : Sch(n).Ref = NilSchema

\* both variants have returned for a schema without $ref and combinators
BothCase == typed # NoValue /\ Called /\ RefFree(schema) /\ NoCombination(schema)

\* every key the tree t has and the input i lacks is in o with the value it
\* has in t, in every object; arrays are equal
RECURSIVE AddedKeysKept(_, _, _)
AddedKeysKept(i, t, o) ==
  IF IsObj(i) /\ IsObj(t)
    THEN IsObj(o) /\ \A k \in KeysOf(t) :
           IF i.m[k] = Absent THEN o.m[k] = t.m[k]
           ELSE AddedKeysKept(i.m[k], t.m[k], o.m[k])
  ELSE IF IsArr(i) /\ IsArr(t) THEN o = t
  ELSE TRUE

RECURSIVE Hollow(_)
Hollow(v) ==
  IF IsArr(v) THEN v.a = <<>>
  ELSE IF IsObj(v) THEN \A k \in KeysOf(v) : Hollow(v.m[k])
  ELSE FALSE

\* o holds what t holds: a supplied key is in both and its values compare in
\* the same way, a key that t has and the input i lacks is hollow in t or is
\* in o with a value that holds what t has there; arrays compare element by
\* element and scalars are equal
RECURSIVE HoldsTyped(_, _, _)
HoldsTyped(i, t, o) ==
  IF IsObj(t)
    THEN IsObj(o) /\ \A k \in KeysOf(t) :
           IF IsObj(i) /\ i.m[k] # Absent
           THEN o.m[k] # Absent /\ HoldsTyped(i.m[k], t.m[k], o.m[k])
           ELSE Hollow(t.m[k])
                \/ (o.m[k] # Absent /\ HoldsTyped(Obj(EmptyMap), t.m[k], o.m[k]))
  ELSE IF IsArr(t)
    THEN IsArr(o) /\ Len(o.a) = Len(t.a)
         /\ \A n \in 1..Len(t.a) :
              HoldsTyped(IF IsArr(i) /\ n <= Len(i.a) THEN i.a[n] ELSE Obj(EmptyMap),
                         t.a[n], o.a[n])
  ELSE o = t

\* a node with a `default` has no properties and no object or array type
DefaultsShapeless(s) ==
  \A n \in Nodes(s) :
    Sch(n).Default # Nil => ~Sch(n).HasProps /\ Sch(n).Types \cap {"object", "array"} = {}

\* no node gives `items` as a list of more than one schema
NoLongTuple(s) ==
  \A n \in Nodes(s) : Sch(n).ItemsKind = "tuple" => Len(Sch(n).Items) <= 1

----------------------------------------------------------------------------
(* Missing properties whose shape comes from a branch *)

\* the node has properties or the type object or array
Shaped(n) ==
  /\ n \notin {NilSchema, Hang}
  /\ (Sch(n).HasProps \/ Sch(n).Types \cap {"object", "array"} # {})

\* the branches in the order allOf, anyOf, oneOf, and the positions of those
\* that have a shape
BranchesOf(n) == Sch(n).AllOf \o Sch(n).AnyOf \o Sch(n).OneOf
ShapedAt(n) == { i \in 1..Len(BranchesOf(n)) : Shaped(resolveRef(BranchesOf(n)[i])) }

\* the first branch with a shape
FirstShaped(n) ==
  resolveRef(BranchesOf(n)[CHOOSE i \in ShapedAt(n) : \A j \in ShapedAt(n) : i <= j])

\* property k of the root object is missing and not required, and its
\* resolved schema has no shape of its own but declares a combination
BranchHintCase(k) ==
  /\ PlainObjectCase
  /\ k \in DOMAIN Sch(Node).Properties
  /\ ~isRequired(k, Sch(Node).Required)
  /\ In.m[k] = Absent
  /\ resolveRef(Sch(Node).Properties[k]) # Hang
  /\ ~Shaped(resolveRef(Sch(Node).Properties[k]))
  /\ BranchesOf(resolveRef(Sch(Node).Properties[k])) # <<>>

\* what ApplyDefaults makes of an empty object or an empty array under the
\* schema of property k
FromEmpty(k, shape) ==
  IF shape = "object"
  THEN Then(emptyMap(pre),
            LAMBDA e : Tree(ApplyDefaults(e.h, e.v, Sch(Node).Properties[k], MaxDepth)))
  ELSE Then(emptySlice(pre),
            LAMBDA e : Tree(ApplyDefaults(e.h, e.v, Sch(Node).Properties[k], MaxDepth)))

\* the value built from the empty structure the first shaped branch decides,
\* if it is not empty
Synthesized(k) ==
  LET first == FirstShaped(resolveRef(Sch(Node).Properties[k]))
      shape == IF Sch(first).HasProps \/ "object" \in Sch(first).Types
               THEN "object" ELSE "array"
  IN IF FromEmpty(k, shape) \in {Obj(EmptyMap), Arr(<<>>)} THEN Absent
     ELSE FromEmpty(k, shape)

\* C26 as stated: the first branch in the order allOf, anyOf, oneOf that is
\* object-shaped or array-typed decides the empty structure the value is
\* built from; with no such branch the literal default is inserted if there
\* is one, and nothing otherwise.
C26_BranchHint ==
  \A k \in Keys :
    BranchHintCase(k) =>
      IF ShapedAt(resolveRef(Sch(Node).Properties[k])) # {}
      THEN Out.m[k] = Synthesized(k)
      ELSE Out.m[k] = IF DefaultOf(Sch(Node).Properties[k]) = Nil THEN Absent
                      ELSE Deref(SchemaHeap, DefaultOf(Sch(Node).Properties[k]))

\* C26 as amended: as stated, but with no shaped branch the literal default is
\* inserted only if it is neither {} nor []; a value built from an empty
\* structure is inserted only if it is not empty, and the literal default is
\* not looked at when a branch has a shape.
C26_BranchHintNonEmpty ==
  \A k \in Keys :
    BranchHintCase(k) =>
      IF ShapedAt(resolveRef(Sch(Node).Properties[k])) # {}
      THEN Out.m[k] = Synthesized(k)
      ELSE Out.m[k] =
             IF Deref(SchemaHeap, DefaultOf(Sch(Node).Properties[k]))
                  \in {Nil, Obj(EmptyMap), Arr(<<>>)}
             THEN Absent
             ELSE Deref(SchemaHeap, DefaultOf(Sch(Node).Properties[k]))

\* RHints on {}: "a" has the array branch of anyOf before the object branch
\* of oneOf and stays out, "b" gets its literal 9, "c" with the literal []
\* stays out
C26_Witness ==
  /\ BranchHintCase("a") /\ BranchHintCase("b") /\ BranchHintCase("c")
  /\ Node = "RHints"
  /\ FirstShaped("HintArrFirst") = "ArrObj"
  /\ ShapedAt("HintNone9") = {}
  /\ Out = Obj(Set("b", Num(9)))

----------------------------------------------------------------------------
(* Missing properties with a shape of their own *)

\* property k of the root object is missing and not required, and its
\* resolved schema has properties or the type object or array
OwnShapeCase(k) ==
  /\ PlainObjectCase
  /\ k \in DOMAIN Sch(Node).Properties
  /\ ~isRequired(k, Sch(Node).Required)
  /\ In.m[k] = Absent
  /\ Shaped(resolveRef(Sch(Node).Properties[k]))

OwnShape(n) == IF Sch(n).HasProps \/ "object" \in Sch(n).Types THEN "object" ELSE "array"

\* C27: for a missing non-required property whose resolved schema is
\* object-shaped or array-typed the inserted value is what ApplyDefaults makes
\* of an empty object or an empty array (nothing is inserted if that is
\* empty); the literal default of the property schema plays no part.
C27_BuiltFromEmpty ==
  \A k \in Keys :
    OwnShapeCase(k) =>
      Out.m[k] =
        IF FromEmpty(k, OwnShape(resolveRef(Sch(Node).Properties[k])))
             \in {Obj(EmptyMap), Arr(<<>>)}
        THEN Absent
        ELSE FromEmpty(k, OwnShape(resolveRef(Sch(Node).Properties[k])))

\* RLits on {}: "a" declares the literal {"b": 9} and gets {"a": 7}
C27_Witness ==
  /\ OwnShapeCase("a")
  /\ Node = "RLits"
  /\ Deref(SchemaHeap, DefaultOf(Sch(Node).Properties["a"])) = Obj(Set("b", Num(9)))
  /\ Out.m["a"] = Obj(Set("a", Num(7)))

----------------------------------------------------------------------------
(* Scalars during the fold over the subschemas *)

\* the root is a combination node and the document an object
FoldCase == Called /\ Resolves /\ combinationMode(Node) # "none" /\ IsObj(In)

\* the subschemas the fold goes through, and the document after the first j
AppliedOf ==
  schemasToApply(pre, input, combinationSubschemas(Node, combinationMode(Node)),
                 combinationMode(Node))
Stage(j) == Tree(applySequentially(pre, input, SubSeq(AppliedOf, 1, j), MaxDepth))

Scalar(v) == v.t \in {"null", "num", "str"}

\* C28: during the fold over the subschemas of a combination and the pass
\* over the node itself, a key that holds a scalar, supplied by the caller or
\* written by an earlier subschema, keeps it: the final output has at that key
\* the value first written there.
C28_ScalarsStay ==
  FoldCase =>
    \A j \in 0..Len(AppliedOf) :
      IsObj(Stage(j)) =>
        \A k \in Keys : Scalar(Stage(j).m[k]) => Out.m[k] = Stage(j).m[k]

\* RAnyOf on {}: both branches apply, the second writes "c": 7, and the node's
\* own default 9 for "c" does not replace it
C28_Witness ==
  /\ FoldCase
  /\ Node = "RAnyOf"
  /\ In = Obj(EmptyMap)
  /\ Len(AppliedOf) = 2
  /\ Stage(1).m["c"] = Absent
  /\ Stage(2).m["c"] = Num(7)
  /\ DefaultOf(Sch(Node).Properties["c"]) = Num(9)
  /\ Out.m["c"] = Num(7)

----------------------------------------------------------------------------
(* Validation before application *)

\* the root is dispatched as oneOf or anyOf
ValidatedCase == Called /\ Resolves /\ combinationMode(Node) \in {"oneOf", "anyOf"}

\* the branches chosen by validity against the value the node was handed
ChosenAtEntry ==
  IF combinationMode(Node) = "oneOf"
  THEN (IF Cardinality(Matching) = 1 THEN Matching ELSE DOMAIN Branches)
  ELSE (IF Matching # {} THEN Matching ELSE DOMAIN Branches)
ChosenBranches ==
  LET at == SelectSeq([i \in 1..Len(Branches) |-> i], LAMBDA i : i \in ChosenAtEntry)
  IN [j \in 1..Len(at) |-> Branches[at[j]]]

\* C29: in the handling of anyOf and oneOf every branch is validated against
\* the value the node was handed, before the defaults of any branch are
\* applied: the output is the fold over the branches chosen by that validity,
\* whatever keys the earlier branches insert.
C29_ValidatedAtEntry ==
  ValidatedCase =>
    Out = Tree(Then(applySequentially(pre, input, ChosenBranches, MaxDepth),
                    LAMBDA r : applyDefaultsToBaseSchema(r.h, r.v, Node, MaxDepth)))

\* anyOf [OneB, OneA] on {}: only OneB is valid for {}, it adds "b", with
\* which OneA would be valid; OneA is not applied
C29_Witness ==
  /\ ValidatedCase
  /\ Node = "RAnyOrder"
  /\ In = Obj(EmptyMap)
  /\ Matching = {1}
  /\ Validate(heap, "OneA", out)
  /\ Out = Obj(Set("b", Str(8)))

----------------------------------------------------------------------------
(* The order of the range over the properties *)

\* the second run of the permissive variant, and of the typed one, has
\* returned
OrderCase == swapped # NoValue /\ pc = "applied"
OrderCaseTyped == swapped # NoValue /\ typed # NoValue

\* C30: the result of ApplyDefaults does not depend on the order in which the
\* properties of a node are visited: for the same document and schema, two
\* runs that range over the property maps in different orders return the
\* same value, in the permissive variant and in the typed one.
C30_OrderIndependent ==
  /\ OrderCase => Out = swapped
  /\ OrderCaseTyped => typed = swappedTyped

\* a document that gets two or more defaults written, the second run ranging
\* in the reverse order of the first
C30_Witness ==
  /\ OrderCase
  /\ OrderCaseTyped
  /\ Node = "RBasic"
  /\ IsObj(In)
  /\ Cardinality(KeysOf(Out) \ KeysOf(In)) >= 2
  /\ order = <<"c", "b", "a">>
  /\ Out = swapped

============================================================================
